---- MODULE Spec2Model ----
(***************************************************************************)
(* AudioWatch watch-rule expression language: the parser                   *)
(* (audiowatch/matcher/parser.py) and the evaluator                        *)
(* (audiowatch/matcher/evaluator.py).                                      *)
(*                                                                         *)
(* Text is a sequence of lexemes (the grammar's terminals); a string is a  *)
(* sequence of one-character strings; a Decimal is an integer number of    *)
(* hundredths; a float literal with at most two fraction digits is an      *)
(* integer number of hundredths as well.                                   *)
(***************************************************************************)
EXTENDS Integers, Sequences, FiniteSets, TLC

VARIABLES text, pc, result, reparsed, expression, listing, outcome

\* the watch_rules, listings and notification_log tables, the orchestrator's
\* _rule_evaluators, and what the last operation of the service did
VARIABLES watch_rules, rule_evaluators, db_listings, notification_log, trace

service == <<watch_rules, rule_evaluators, db_listings, notification_log, trace>>

\* the evaluations in progress on the worker threads
VARIABLES workers

\* the module global _parser of matcher/parser.py with the threads calling
\* parse_expression; the settings with the class counter of
\* _ConfigRuleWrapper; the ScrapeScheduler with its jobs and its pool
VARIABLES callers, config, sched

extra == <<workers, callers, config, sched>>

vars == <<text, pc, result, reparsed, expression, listing, outcome,
          watch_rules, rule_evaluators, db_listings, notification_log, trace,
          workers, callers, config, sched>>

(***************************************************************************)
(* Bounds of the model.                                                    *)
(***************************************************************************)
\* fragments (a condition, a keyword, a parenthesis, a broken condition) in a text
MaxChunks == 5
\* operands of one AND / OR node handed to the evaluator
MaxOperands == 3

(***************************************************************************)
(* Python values.                                                          *)
(***************************************************************************)
None == [t |-> "none", v |-> 0]
PyStr(s) == [t |-> "str", v |-> s]
PyInt(n) == [t |-> "int", v |-> n]
\* float and Decimal carry hundredths
PyFloat(h) == [t |-> "float", v |-> h]
PyDecimal(h) == [t |-> "dec", v |-> h]

TAB == "TAB"
BSL == "\\"

(***************************************************************************)
(* Lexemes: [k, v].  k is the terminal's class, v its text.                *)
(*   field  v = identifier                                                 *)
(*   op     v = operator text as written                                   *)
(*   kw     v = keyword text as written                                    *)
(*   str    v = [q |-> quote character, body |-> characters between]       *)
(*   num    v = [whole |-> integer part, frac |-> fraction digits or <<>>] *)
(*   lpar, rpar                                                            *)
(***************************************************************************)
Tok(k, v) == [k |-> k, v |-> v]
KwAND == Tok("kw", "AND")
KwOR == Tok("kw", "OR")
KwNOT == Tok("kw", "NOT")
LPar == Tok("lpar", "(")
RPar == Tok("rpar", ")")
StrLit(q, body) == Tok("str", [q |-> q, body |-> body])
NumLit(whole, frac) == Tok("num", [whole |-> whole, frac |-> frac])

\* Operator enum values (parser.py Operator)
Operators ==
  {"=", "!=", "<", ">", "<=", ">=", "contains", "startswith", "endswith",
   "matches", "fuzzy_contains"}

\* str.lower() on the operator spellings the texts use
LowerWord(w) ==
  CASE w = "CONTAINS" -> "contains"
    [] w = "MATCHES" -> "matches"
    [] w = "AND" -> "and"
    [] w = "OR" -> "or"
    [] w = "NOT" -> "not"
    [] OTHER -> w

\* CaselessKeyword(kw) matches a word whatever its case
CaselessKeyword(tok, kw) ==
  /\ tok.k \in {"kw", "op"}
  /\ LowerWord(tok.v) = LowerWord(kw)

\* comp_op | str_op : one_of("= != < > <= >=") or one of the five caseless keywords
IsOperatorToken(tok) ==
  /\ tok.k = "op"
  /\ LowerWord(tok.v) \in Operators

(***************************************************************************)
(* Literal conversion.                                                     *)
(***************************************************************************)
RECURSIVE ConvertWhitespaceEscapes(_)
\* QuotedString with no escape character: the body is taken as written, except
\* that backslash-t (and n, r, f) becomes the whitespace character
ConvertWhitespaceEscapes(body) ==
  IF Len(body) = 0 THEN <<>>
  ELSE IF Len(body) >= 2 /\ body[1] = BSL /\ body[2] = "t"
       THEN <<TAB>> \o ConvertWhitespaceEscapes(SubSeq(body, 3, Len(body)))
       ELSE <<body[1]>> \o ConvertWhitespaceEscapes(Tail(body))

\* pyparsing_common.number: an integer lexeme gives int, one with a fraction float
NumberValue(n) ==
  IF Len(n.frac) = 0 THEN PyInt(n.whole)
  ELSE PyFloat(n.whole * 100
               + (IF Len(n.frac) = 1 THEN n.frac[1] * 10
                  ELSE n.frac[1] * 10 + n.frac[2]))

\* value = (string_value | number)
LiteralValue(tok) ==
  IF tok.k = "str" THEN PyStr(ConvertWhitespaceEscapes(tok.v.body))
  ELSE NumberValue(tok.v)

(***************************************************************************)
(* AST (parser.py Condition, BooleanExpr).                                 *)
(***************************************************************************)
Condition(field, operator, value) ==
  [kind |-> "Condition", field |-> field, operator |-> operator, value |-> value]
BooleanExpr(operator, operands) ==
  [kind |-> "BooleanExpr", operator |-> operator, operands |-> operands]

\* RuleParser._make_condition: tokens[0] is the group field, operator, value
MakeCondition(t) ==
  Condition(t[1].v, LowerWord(t[2].v), LiteralValue(t[3]))

\* slip: t[0], the keyword, taken for the operand
MakeNotKeyword(t) == BooleanExpr("NOT", <<t[1]>>)

\* RuleParser._make_not: t = <<NOT, operand>>
MakeNot(t) == BooleanExpr("NOT", <<t[2]>>)

\* [t[i] for i in range(0, len(t), 2)]
EveryOther(t) == [j \in 1..((Len(t) + 1) \div 2) |-> t[2 * j - 1]]

RECURSIVE MakeAndNested(_)
\* slip: a binary node per keyword, nested to the left
MakeAndNested(t) ==
  IF Len(t) <= 3 THEN BooleanExpr("AND", EveryOther(t))
  ELSE BooleanExpr("AND", <<MakeAndNested(SubSeq(t, 1, Len(t) - 2)), t[Len(t)]>>)

\* RuleParser._make_and: t = <<operand, AND, operand, AND, operand, ...>>
MakeAnd(t) == BooleanExpr("AND", EveryOther(t))

\* RuleParser._make_or
MakeOr(t) == BooleanExpr("OR", EveryOther(t))

(***************************************************************************)
(* The grammar (RuleParser._build_parser): infix_notation over condition   *)
(* with the levels NOT (unary, right), AND (binary, left), OR (binary,     *)
(* left), listed from the tightest binding to the loosest.                 *)
(***************************************************************************)
NoAst == [kind |-> "none"]
Eof == Tok("eof", "")
At(toks, i) == IF i >= 1 /\ i <= Len(toks) THEN toks[i] ELSE Eof
Matched(ast, pos) == [ok |-> TRUE, ast |-> ast, pos |-> pos]
NoMatch(pos) == [ok |-> FALSE, ast |-> NoAst, pos |-> pos]

\* slip: OR listed before AND
LevelsOrBeforeAnd == <<"not", "or", "and">>

\* the operator list handed to infix_notation, tightest binding first
Levels == <<"not", "and", "or">>

\* ret <<= lastExpr: the whole expression is the last level built
TopLevel == Levels[Len(Levels)]

\* the level infix_notation builds below a level ("lastExpr"); below the first, the atom
LevelBelow(level) ==
  LET n == CHOOSE j \in 1..Len(Levels) : Levels[j] = level
  IN IF n = 1 THEN "atom" ELSE Levels[n - 1]

LevelKeyword(level) == IF level = "or" THEN "OR" ELSE "AND"

RECURSIVE ParseLevel(_, _, _)
RECURSIVE ParseOperands(_, _, _, _)
RECURSIVE ParseGroup(_, _)

\* (opExpr + lastExpr)[1, ...] of a binary level: greedy, no backtracking.
\* acc is the group's token list so far: operand, keyword, operand, ...
ParseOperands(level, toks, i, acc) ==
  IF ~CaselessKeyword(At(toks, i), LevelKeyword(level))
  THEN [t |-> acc, pos |-> i]
  ELSE LET r == ParseLevel(LevelBelow(level), toks, i + 1)
       IN IF r.ok
          THEN ParseOperands(level, toks, r.pos, acc \o <<At(toks, i), r.ast>>)
          ELSE [t |-> acc, pos |-> i]

\* slip: a single condition between the parentheses
ParseGroupConditionOnly(toks, i) ==
  LET r == ParseLevel("atom", toks, i + 1)
  IN IF r.ok /\ At(toks, r.pos).k = "rpar"
     THEN Matched(r.ast, r.pos + 1)
     ELSE NoMatch(i)

\* lpar + ret + rpar, toks[i] being the opening parenthesis: the whole expression
\* between suppressed parentheses, which leave no token of their own
ParseGroup(toks, i) ==
  LET r == ParseLevel(TopLevel, toks, i + 1)
  IN IF r.ok /\ At(toks, r.pos).k = "rpar"
     THEN Matched(r.ast, r.pos + 1)
     ELSE NoMatch(i)

\* one level of infix_notation at position i: thisExpr <<= (matchExpr | lastExpr)
ParseLevel(level, toks, i) ==
  CASE level = "atom" ->
         \* base_expr | (lpar + ret + rpar), base_expr = Group(field + op + value)
         IF /\ At(toks, i).k = "field"
            /\ IsOperatorToken(At(toks, i + 1))
            /\ At(toks, i + 2).k \in {"str", "num"}
         THEN Matched(MakeCondition(SubSeq(toks, i, i + 2)), i + 3)
         ELSE IF At(toks, i).k = "lpar"
              THEN ParseGroup(toks, i)
              ELSE NoMatch(i)
    [] level = "not" ->
         \* Group(not_op + thisExpr) | lastExpr
         LET r == IF CaselessKeyword(At(toks, i), "NOT")
                  THEN ParseLevel("not", toks, i + 1)
                  ELSE NoMatch(i)
         IN IF r.ok
            THEN Matched(MakeNot(<<At(toks, i), r.ast>>), r.pos)
            ELSE ParseLevel("atom", toks, i)
    [] OTHER ->
         \* Group(lastExpr + (op + lastExpr)[1, ...]) | lastExpr
         LET first == ParseLevel(LevelBelow(level), toks, i)
         IN IF ~first.ok
            THEN NoMatch(i)
            ELSE LET rest == ParseOperands(level, toks, first.pos, <<first.ast>>)
                 IN IF Len(rest.t) = 1
                    THEN first
                    ELSE Matched(IF level = "and" THEN MakeAnd(rest.t)
                                 ELSE MakeOr(rest.t), rest.pos)

\* parseString(expression, parseAll): the expression, then (parseAll) end of text
ParseString(toks, parseAll) ==
  LET r == ParseLevel(TopLevel, toks, 1)
  IN IF r.ok /\ (parseAll => r.pos = Len(toks) + 1) THEN r ELSE NoMatch(r.pos)

NoError == [raised |-> FALSE, input |-> <<>>]

\* slip: parseString without parseAll
ParsePrefix(toks) ==
  LET r == ParseString(toks, FALSE)
  IN IF r.ok
     THEN [ok |-> TRUE, ast |-> r.ast, error |-> NoError]
     ELSE [ok |-> FALSE, ast |-> NoAst, error |-> [raised |-> TRUE, input |-> toks]]

\* RuleParser.parse: result[0], or ValueError(f"Failed to parse expression:
\* {expression!r}: {e}") for whatever the grammar raised
Parse(toks) ==
  LET r == ParseString(toks, TRUE)
  IN IF r.ok
     THEN [ok |-> TRUE, ast |-> r.ast, error |-> NoError]
     ELSE [ok |-> FALSE, ast |-> NoAst, error |-> [raised |-> TRUE, input |-> toks]]

(***************************************************************************)
(* The AST's textual form (Condition.__repr__, BooleanExpr.__repr__), as   *)
(* the lexemes the text consists of.                                       *)
(***************************************************************************)
RECURSIVE EscapeRepr(_, _)
\* the body of repr(str) inside quote q: backslash doubled, TAB as \t, q as \q
EscapeRepr(s, q) ==
  IF Len(s) = 0 THEN <<>>
  ELSE (CASE s[1] = BSL -> <<BSL, BSL>>
          [] s[1] = TAB -> <<BSL, "t">>
          [] s[1] = q -> <<BSL, q>>
          [] OTHER -> <<s[1]>>) \o EscapeRepr(Tail(s), q)

Has(s, c) == \E j \in 1..Len(s) : s[j] = c

\* repr(value): f"{self.value!r}"
ReprLiteral(value) ==
  CASE value.t = "str" ->
         LET q == IF Has(value.v, "'") /\ ~Has(value.v, "\"") THEN "\"" ELSE "'"
         IN StrLit(q, EscapeRepr(value.v, q))
    [] value.t = "int" -> NumLit(value.v, <<>>)
    [] OTHER ->
         LET r == value.v % 100
         IN NumLit(value.v \div 100,
                   IF r % 10 = 0 THEN <<r \div 10>> ELSE <<r \div 10, r % 10>>)

RECURSIVE Repr(_)
RECURSIVE JoinRepr(_, _, _)

\* op_str.join(str(o) for o in self.operands), from operand j on
JoinRepr(operator, operands, j) ==
  IF j > Len(operands) THEN <<>>
  ELSE (IF j > 1 THEN <<Tok("kw", operator)>> ELSE <<>>)
       \o Repr(operands[j]) \o JoinRepr(operator, operands, j + 1)

Repr(e) ==
  IF e.kind = "Condition"
  THEN <<Tok("field", e.field), Tok("op", e.operator), ReprLiteral(e.value)>>
  ELSE IF e.operator = "NOT"
       THEN <<KwNOT, LPar>> \o Repr(e.operands[1]) \o <<RPar>>
       ELSE <<LPar>> \o JoinRepr(e.operator, e.operands, 1) \o <<RPar>>

(***************************************************************************)
(* The evaluator (RuleEvaluator).  A listing is a function from the names  *)
(* of the attributes it has to their values.  Evaluation yields            *)
(* [fault, val, visited]: whether an exception left the call, the boolean  *)
(* returned otherwise, and the conditions evaluated, in order.             *)
(***************************************************************************)
\* RuleEvaluator.FIELD_MAPPING
FIELD_MAPPING ==
  [title |-> "title", price |-> "price", currency |-> "currency",
   category |-> "category", condition |-> "condition",
   seller |-> "seller_username", seller_username |-> "seller_username",
   seller_reputation |-> "seller_reputation", listing_type |-> "listing_type",
   type |-> "listing_type", shipping |-> "shipping_regions",
   ships_to |-> "shipping_regions"]

\* slip: the field name used as the attribute name
FieldNameUnresolved(field) == field

\* FIELD_MAPPING.get(cond.field.lower(), cond.field)
FieldName(field) ==
  IF LowerWord(field) \in DOMAIN FIELD_MAPPING
  THEN FIELD_MAPPING[LowerWord(field)]
  ELSE field

\* getattr(listing, field_name, None)
GetAttr(l, name) == IF name \in DOMAIN l THEN l[name] ELSE None

\* the characters of the model in code point order
CodePoints == <<TAB, "0", "1", "2", "3", "4", "5", "6", "7", "8", "9",
                "D", "H", BSL, "d", "h", "s", "t", "x">>
Ord(c) == CHOOSE j \in 1..Len(CodePoints) : CodePoints[j] = c
Digits == <<"0", "1", "2", "3", "4", "5", "6", "7", "8", "9">>
IsDigit(c) == \E j \in 1..10 : Digits[j] = c
DigitValue(c) == (CHOOSE j \in 1..10 : Digits[j] = c) - 1

\* str.lower()
LowerChar(c) == CASE c = "D" -> "d" [] c = "H" -> "h" [] OTHER -> c
Lower(s) == [j \in 1..Len(s) |-> LowerChar(s[j])]

RECURSIVE StrLess(_, _)
\* a < b on str: lexicographic by code point
StrLess(a, b) ==
  IF Len(b) = 0 THEN FALSE
  ELSE IF Len(a) = 0 THEN TRUE
  ELSE IF a[1] = b[1] THEN StrLess(Tail(a), Tail(b))
  ELSE Ord(a[1]) < Ord(b[1])

StartsWith(s, p) == Len(p) <= Len(s) /\ SubSeq(s, 1, Len(p)) = p
EndsWith(s, p) == Len(p) <= Len(s) /\ SubSeq(s, Len(s) - Len(p) + 1, Len(s)) = p
\* p in s
Substring(s, p) ==
  \E j \in 1..(Len(s) - Len(p) + 1) : SubSeq(s, j, j + Len(p) - 1) = p

RECURSIVE DigitsOf(_)
\* str(n) for n >= 0
DigitsOf(n) ==
  IF n < 10 THEN <<Digits[n + 1]>>
  ELSE DigitsOf(n \div 10) \o <<Digits[(n % 10) + 1]>>

\* str(value): a Decimal column keeps two places, a float prints as its repr
StrOf(value) ==
  CASE value.t = "str" -> value.v
    [] value.t = "int" -> DigitsOf(value.v)
    [] value.t = "dec" ->
         DigitsOf(value.v \div 100) \o <<".">>
         \o <<Digits[((value.v % 100) \div 10) + 1], Digits[(value.v % 10) + 1]>>
    [] value.t = "float" ->
         DigitsOf(value.v \div 100) \o <<".">>
         \o (IF value.v % 10 = 0 THEN <<Digits[((value.v % 100) \div 10) + 1]>>
             ELSE <<Digits[((value.v % 100) \div 10) + 1], Digits[(value.v % 10) + 1]>>)
    [] OTHER -> <<"N", "o", "n", "e">>

RECURSIVE IntOfDigits(_, _)
IntOfDigits(s, acc) ==
  IF Len(s) = 0 THEN acc ELSE IntOfDigits(Tail(s), acc * 10 + DigitValue(s[1]))

\* the text of an unsigned integer; the strings of the model are such a text or
\* hold a character that no number has
IsIntegerText(s) == Len(s) > 0 /\ \A j \in 1..Len(s) : IsDigit(s[j])

Raised == [fault |-> TRUE, val |-> FALSE]
Returned(b) == [fault |-> FALSE, val |-> b]

\* slip: the literal made an integer whatever the field's type
CoerceTruncating(field_value, compare_value) ==
  IF field_value.t \in {"dec", "int"} /\ compare_value.t \in {"int", "float"}
  THEN [fault |-> FALSE, caught |-> FALSE,
        value |-> [t |-> field_value.t,
                   v |-> IF field_value.t = "int"
                         THEN (IF compare_value.t = "int" THEN 100 * compare_value.v ELSE compare_value.v) \div 100
                         ELSE 100 * ((IF compare_value.t = "int" THEN 100 * compare_value.v ELSE compare_value.v) \div 100)]]
  ELSE [fault |-> FALSE, caught |-> TRUE, value |-> compare_value]

\* the coercion of the literal for <, >, <=, >= (evaluator.py 122-129):
\* [fault, caught, value]: an exception that leaves the try block, one the
\* except clause (ValueError, TypeError) turns into return False, or the value
Coerce(field_value, compare_value) ==
  CASE field_value.t = "dec" ->
         \* Decimal(str(compare_value)); decimal.InvalidOperation is an
         \* ArithmeticError, neither a ValueError nor a TypeError
         IF compare_value.t = "str"
         THEN IF IsIntegerText(compare_value.v)
              THEN [fault |-> FALSE, caught |-> FALSE,
                    value |-> PyDecimal(100 * IntOfDigits(compare_value.v, 0))]
              ELSE [fault |-> TRUE, caught |-> FALSE, value |-> compare_value]
         ELSE [fault |-> FALSE, caught |-> FALSE,
               value |-> PyDecimal(IF compare_value.t = "int"
                                   THEN 100 * compare_value.v
                                   ELSE compare_value.v)]
    [] field_value.t = "int" ->
         \* int(compare_value): ValueError for a text that is no integer,
         \* truncation for a float
         IF compare_value.t = "str"
         THEN IF IsIntegerText(compare_value.v)
              THEN [fault |-> FALSE, caught |-> FALSE,
                    value |-> PyInt(IntOfDigits(compare_value.v, 0))]
              ELSE [fault |-> FALSE, caught |-> TRUE, value |-> compare_value]
         ELSE [fault |-> FALSE, caught |-> FALSE,
               value |-> PyInt(IF compare_value.t = "int"
                               THEN compare_value.v
                               ELSE compare_value.v \div 100)]
    [] OTHER -> [fault |-> FALSE, caught |-> FALSE, value |-> compare_value]

\* field_value < compare_value and the like, after the coercion: numbers of one
\* type or two strings compare, a string against a number is a TypeError
Order(operator, a, b) ==
  IF a.t = b.t
  THEN LET lt == IF a.t = "str" THEN StrLess(a.v, b.v) ELSE a.v < b.v
           gt == IF a.t = "str" THEN StrLess(b.v, a.v) ELSE a.v > b.v
       IN Returned(CASE operator = "<" -> lt
                     [] operator = ">" -> gt
                     [] operator = "<=" -> ~gt
                     [] OTHER -> ~lt)
  ELSE Raised

\* a == b on values of different types: numbers compare by exact value (a float
\* is exactly a number of hundredths only when that is a multiple of a quarter)
PyEquals(a, b) ==
  CASE a.t = b.t -> a.v = b.v
    [] a.t = "str" \/ b.t = "str" -> FALSE
    [] a.t = "dec" /\ b.t = "int" -> a.v = 100 * b.v
    [] a.t = "dec" /\ b.t = "float" -> a.v = b.v /\ b.v % 25 = 0
    [] a.t = "int" /\ b.t = "float" -> 100 * a.v = b.v
    [] OTHER -> FALSE

\* RuleEvaluator._equals
Equals(field_value, compare_value) ==
  IF field_value.t = "str" /\ compare_value.t = "str"
  THEN Lower(field_value.v) = Lower(compare_value.v)
  ELSE PyEquals(field_value, compare_value)

\* RuleEvaluator._contains: compare_value in field_value is a TypeError unless
\* both are strings
Contains(field_value, compare_value) ==
  IF field_value.t = "str" /\ compare_value.t = "str"
  THEN Returned(Substring(Lower(field_value.v), Lower(compare_value.v)))
  ELSE Raised

\* RuleEvaluator._startswith
Startswith(field_value, compare_value) ==
  IF field_value.t = "str" /\ compare_value.t = "str"
  THEN StartsWith(Lower(field_value.v), Lower(compare_value.v))
  ELSE StartsWith(StrOf(field_value), StrOf(compare_value))

\* RuleEvaluator._endswith
Endswith(field_value, compare_value) ==
  IF field_value.t = "str" /\ compare_value.t = "str"
  THEN EndsWith(Lower(field_value.v), Lower(compare_value.v))
  ELSE EndsWith(StrOf(field_value), StrOf(compare_value))

\* slip: the != exception of the None branch left out
NoneComparisonAlwaysFalse(cond) == Returned(FALSE)

\* the branch for a field that is None (evaluator.py 112-116)
NoneComparison(cond) == Returned(cond.operator \in {"!="})

\* the match statement (evaluator.py 132-152); matches and fuzzy_contains have
\* no case and reach case _: raise ValueError
Dispatch(operator, field_value, compare_value) ==
  CASE operator = "=" -> Returned(Equals(field_value, compare_value))
    [] operator = "!=" -> Returned(~Equals(field_value, compare_value))
    [] operator \in {"<", ">", "<=", ">="} -> Order(operator, field_value, compare_value)
    [] operator = "contains" -> Contains(field_value, compare_value)
    [] operator = "startswith" -> Returned(Startswith(field_value, compare_value))
    [] operator = "endswith" -> Returned(Endswith(field_value, compare_value))
    [] OTHER -> Raised

\* RuleEvaluator._evaluate_condition
EvaluateCondition(cond, l) ==
  LET field_value == GetAttr(l, FieldName(cond.field))
      coerced == IF cond.operator \in {"<", ">", "<=", ">="}
                 THEN Coerce(field_value, cond.value)
                 ELSE [fault |-> FALSE, caught |-> FALSE, value |-> cond.value]
  IN IF field_value.t = "none" THEN NoneComparison(cond)
     ELSE IF coerced.fault THEN Raised
     ELSE IF coerced.caught THEN Returned(FALSE)
     ELSE Dispatch(cond.operator, field_value, coerced.value)

\* slip: all([...]) / any([...]) over a list, every operand evaluated
DecidesNever(operator, val) == FALSE

\* all() stops at the first false operand, any() at the first true one
Decides(operator, val) == val = (operator = "OR")

RECURSIVE Evaluate(_, _)
RECURSIVE EvaluateOperands(_, _, _, _)

\* all(self._evaluate(op, listing) for op in expr.operands), any(...): the
\* generator is consumed from operand j on
EvaluateOperands(operator, operands, l, j) ==
  IF j > Len(operands)
  THEN [fault |-> FALSE, val |-> (operator = "AND"), visited |-> <<>>]
  ELSE LET r == Evaluate(operands[j], l)
       IN IF r.fault \/ Decides(operator, r.val)
          THEN r
          ELSE LET rest == EvaluateOperands(operator, operands, l, j + 1)
               IN [fault |-> rest.fault, val |-> rest.val,
                   visited |-> r.visited \o rest.visited]

\* RuleEvaluator._evaluate and _evaluate_boolean
Evaluate(e, l) ==
  IF e.kind = "Condition"
  THEN LET r == EvaluateCondition(e, l)
       IN [fault |-> r.fault, val |-> r.val, visited |-> <<e>>]
  ELSE IF e.operator = "NOT"
       THEN LET r == Evaluate(e.operands[1], l)
            IN [fault |-> r.fault, val |-> (~r.fault /\ ~r.val), visited |-> r.visited]
       ELSE EvaluateOperands(e.operator, e.operands, l, 1)

\* RuleEvaluator.matches: the result, or the except handler, which logs
\* listing.id and the error and returns False; reading listing.id raises
\* AttributeError on a record without that attribute
Handled(r, l) ==
  IF ~r.fault
  THEN [status |-> "returned", value |-> r.val, logged |-> FALSE, visited |-> r.visited]
  ELSE IF "id" \in DOMAIN l
       THEN [status |-> "returned", value |-> FALSE, logged |-> TRUE,
             visited |-> r.visited]
       ELSE [status |-> "raised", value |-> FALSE, logged |-> FALSE,
             visited |-> r.visited]

\* RuleEvaluator.matches(listing): self._evaluate(self.expression, listing)
\* inside the try
Matches(e, l) == Handled(Evaluate(e, l), l)

(***************************************************************************)
(* Texts handed to parse.  A text is built fragment by fragment; the       *)
(* fragments are whole conditions, keywords, parentheses and the two       *)
(* malformed conditions.                                                   *)
(***************************************************************************)
\* price < 9.50
CondA == <<Tok("field", "price"), Tok("op", "<"), NumLit(9, <<5, 0>>)>>
\* title MATCHES "\s"
CondB == <<Tok("field", "title"), Tok("op", "MATCHES"), StrLit("\"", <<BSL, "s">>)>>
TextConditions == {CondA, CondB}
TextKeywords == {<<KwAND>>, <<KwOR>>, <<KwNOT>>}
TextParens == {<<LPar>>, <<RPar>>}
\* title contains        (the value is missing)
MissingValue == <<Tok("field", "title"), Tok("op", "contains")>>
\* title like 'x'        (like is no operator)
UnknownOperator == <<Tok("field", "title"), Tok("op", "like"), StrLit("'", <<"x">>)>>
TextBroken == {MissingValue, UnknownOperator}

RECURSIVE Flatten(_)
\* the lexemes of a text
Flatten(frags) ==
  IF Len(frags) = 0 THEN <<>> ELSE frags[1] \o Flatten(Tail(frags))

NoResult == [ok |-> FALSE, ast |-> NoAst, error |-> NoError]
NoListing == [absent |-> TRUE]
NoOutcome == [status |-> "none", value |-> FALSE, logged |-> FALSE, visited |-> <<>>]

NoTrace ==
  [op |-> "none", raised |-> FALSE, rules |-> <<>>, upserted |-> {},
   evaluated |-> {}, sent |-> {}, before |-> {}, element |-> <<>>]

\* empty tables, an orchestrator as NotificationOrchestrator.__init__ leaves it
\* no evaluation in progress
NoWorkers == [frames |-> <<>>, calls |-> <<>>]

\* _parser is None (0: no object), no RuleParser object made, no call under way
NoCallers == [parser |-> 0, heap |-> <<>>, calls |-> <<>>]

\* default settings: no config rules, GlobalFilters() with exclude_status only,
\* the discord notifier enabled; _ConfigRuleWrapper._id_counter = -1
NoConfig ==
  [watch_rules |-> <<>>,
   global_filters |-> [listing_types |-> [t |-> "list", v |-> <<>>],
                       exclude_listing_types |-> [t |-> "list", v |-> <<>>],
                       ships_to |-> [t |-> "list", v |-> <<>>],
                       exclude_status |-> [t |-> "list", v |-> <<<<"s", "o", "l", "d">>,
                                                     <<"e", "x", "p", "i", "r", "e", "d">>,
                                                     <<"d", "e", "l", "e", "t", "e", "d">>>>],
                       min_seller_reputation |-> None],
   enabled_channels |-> {"discord"},
   id_counter |-> -1,
   runs |-> 0]

\* ScrapeScheduler.__init__: _is_running False, a stopped BackgroundScheduler
\* without jobs, an open pool with nothing queued or executing, default
\* signal handling; call is the last start() or stop() call made
NoScheduler ==
  [is_running |-> FALSE, state |-> "stopped", starts |-> 0, adds |-> 0,
   jobs |-> {}, pool_open |-> TRUE, queue |-> <<>>, executing |-> <<>>,
   instances |-> [job \in {"scrape_headfi", "scrape_headfi_immediate"} |-> 0],
   main |-> "idle", signalled |-> FALSE, started_after_signal |-> {},
   call |-> [n |-> 0, op |-> "none", was_running |-> FALSE, changed |-> FALSE,
             effective |-> "none"]]

ExtraInit ==
  /\ workers = NoWorkers
  /\ callers = NoCallers
  /\ config = NoConfig
  /\ sched = NoScheduler

ServiceInit ==
  /\ ExtraInit
  /\ watch_rules = <<>>
  /\ rule_evaluators = <<>>
  /\ db_listings = <<>>
  /\ notification_log = {}
  /\ trace = NoTrace

ParserInit ==
  /\ ServiceInit
  /\ text = <<>>
  /\ pc = "typing"
  /\ result = NoResult
  /\ reparsed = NoResult
  /\ expression = NoAst
  /\ listing = NoListing
  /\ outcome = NoOutcome

TypeFragment(f) ==
  /\ pc = "typing"
  /\ Len(text) < MaxChunks
  /\ text' = Append(text, f)
  /\ UNCHANGED <<pc, result, reparsed, expression, listing, outcome>>
  /\ UNCHANGED service
  /\ UNCHANGED extra

TypeCondition == \E f \in TextConditions : TypeFragment(f)
TypeKeyword == \E f \in TextKeywords : TypeFragment(f)
TypeParen == \E f \in TextParens : TypeFragment(f)
TypeBroken == \E f \in TextBroken : TypeFragment(f)

\* parse_expression(text)
ParseText ==
  /\ pc = "typing"
  /\ result' = Parse(Flatten(text))
  /\ pc' = "parsed"
  /\ UNCHANGED <<text, reparsed, expression, listing, outcome>>
  /\ UNCHANGED service
  /\ UNCHANGED extra

\* parse_expression(repr(ast)) for the ast just returned
ReparseRepr ==
  /\ pc = "parsed"
  /\ result.ok
  /\ reparsed' = Parse(Repr(result.ast))
  /\ pc' = "reparsed"
  /\ UNCHANGED <<text, result, expression, listing, outcome>>
  /\ UNCHANGED service
  /\ UNCHANGED extra

ParserNext ==
  \/ TypeCondition
  \/ TypeKeyword
  \/ TypeParen
  \/ TypeBroken
  \/ ParseText
  \/ ReparseRepr

ParserSpec == ParserInit /\ [][ParserNext]_vars

(***************************************************************************)
(* Expressions and records handed to the evaluator.                        *)
(***************************************************************************)
HD == <<"h", "d">>
EvalFields == {"title", "price", "seller_reputation", "seller", "ships_to", "bogus"}
EvalLiterals == {PyStr(HD), PyStr(<<"5">>), PyInt(1000), PyFloat(99999)}
EvalConditions ==
  {Condition(f, o, v) : f \in EvalFields, o \in Operators, v \in EvalLiterals}

\* operands of the boolean nodes: true, false, faulting, on a missing field,
\* and depending on the price
OperandPool ==
  {Condition("title", "contains", PyStr(HD)),
   Condition("title", "=", PyStr(HD)),
   Condition("title", "matches", PyStr(HD)),
   Condition("bogus", "!=", PyStr(HD)),
   Condition("price", "<", PyInt(1000))}

OperandLists ==
  UNION {[1..n -> OperandPool] : n \in 2..MaxOperands}

FlatNodes ==
  {BooleanExpr("NOT", <<c>>) : c \in OperandPool}
  \cup {BooleanExpr(o, ops) : o \in {"AND", "OR"}, ops \in OperandLists}

PairNodes ==
  {BooleanExpr(o, <<a, b>>) : o \in {"AND", "OR"}, a \in OperandPool, b \in OperandPool}

NestedNodes ==
  {BooleanExpr("NOT", <<e>>) : e \in PairNodes}
  \cup {BooleanExpr(o, <<e, c>>) : o \in {"AND", "OR"}, e \in PairNodes, c \in OperandPool}
  \cup {BooleanExpr(o, <<c, e>>) : o \in {"AND", "OR"}, e \in PairNodes, c \in OperandPool}

EvalExpressions == EvalConditions \cup FlatNodes \cup NestedNodes

\* records: the contract's title, price (Decimal or null), seller_username and
\* seller_reputation (integer or null), with or without an id attribute
ContractRecords ==
  {[title |-> PyStr(<<"H", "D", "8">>), price |-> p,
    seller_username |-> PyStr(<<"d", "x">>), seller_reputation |-> r] :
     p \in {None, PyDecimal(99999), PyDecimal(100000)},
     r \in {None, PyInt(5)}}

WithId(l) == [a \in DOMAIN l \cup {"id"} |-> IF a = "id" THEN PyStr(<<"1">>) ELSE l[a]]

Listings == ContractRecords \cup {WithId(l) : l \in ContractRecords}

\* RuleEvaluator(expression)
EvaluatorInit ==
  /\ ServiceInit
  /\ text = <<>>
  /\ pc = "ready"
  /\ result = NoResult
  /\ reparsed = NoResult
  /\ expression \in EvalExpressions
  /\ listing = NoListing
  /\ outcome = NoOutcome

\* evaluator.matches(l)
MatchListing ==
  /\ pc = "ready"
  /\ \E l \in Listings :
       /\ listing' = l
       /\ outcome' = Matches(expression, l)
  /\ pc' = "matched"
  /\ UNCHANGED <<text, result, reparsed, expression>>
  /\ UNCHANGED service
  /\ UNCHANGED extra

EvaluatorNext == MatchListing

EvaluatorSpec == EvaluatorInit /\ [][EvaluatorNext]_vars

(***************************************************************************)
(* Claims about the evaluator, checked under EvaluatorSpec.                *)
(***************************************************************************)
IsNode(operator) == expression.kind = "BooleanExpr" /\ expression.operator = operator
Operand(j) == Evaluate(expression.operands[j], listing)
NOperands == Len(expression.operands)
HasId == "id" \in DOMAIN listing

\* C1: matches returns a boolean for every expression and every record that has
\* the contract's fields, and never raises; when evaluation raised, it returns
\* false.
C1_MatchesTotal ==
  pc = "matched" =>
    /\ outcome.status = "returned"
    /\ Evaluate(expression, listing).fault => outcome.value = FALSE

\* C2: an OR node with a faulting operand and a sibling operand that evaluates
\* true matches, wherever the faulting operand stands.
C2_OrSurvivesFault ==
  (/\ pc = "matched"
   /\ HasId
   /\ IsNode("OR")
   /\ \E j \in 1..NOperands : Operand(j).fault
   /\ \E j \in 1..NOperands : ~Operand(j).fault /\ Operand(j).val)
  => (outcome.status = "returned" /\ outcome.value = TRUE)

\* C3: a faulting condition counts as false where it stands: NOT of it matches,
\* and an AND holding it returns false without the top-level handler running.
C3_FaultIsLocalFalse ==
  (pc = "matched" /\ HasId) =>
    /\ (/\ IsNode("NOT")
        /\ expression.operands[1].kind = "Condition"
        /\ Operand(1).fault)
       => (outcome.status = "returned" /\ outcome.value = TRUE)
    /\ (/\ IsNode("AND")
        /\ \E j \in 1..NOperands : Operand(j).fault)
       => (outcome.status = "returned" /\ outcome.value = FALSE /\ ~outcome.logged)

FieldMissing ==
  /\ expression.kind = "Condition"
  /\ GetAttr(listing, FieldName(expression.field)).t = "none"

\* C4: a condition on a field that is absent or null is true for != and false
\* for each of the ten other operators, whatever the literal, and nothing is
\* raised.
C4_MissingValuePolicy ==
  (pc = "matched" /\ FieldMissing) =>
    /\ outcome.status = "returned"
    /\ ~outcome.logged
    /\ outcome.value = (expression.operator = "!=")

C4_Witness ==
  /\ pc = "matched"
  /\ FieldMissing
  /\ "price" \in DOMAIN listing
  /\ expression.field = "price"
  /\ expression.operator = "!="
  /\ outcome.value = TRUE

RECURSIVE VisitedUpTo(_)
\* the conditions of the operands 1..k, in order
VisitedUpTo(k) ==
  IF k = 0 THEN <<>> ELSE VisitedUpTo(k - 1) \o Operand(k).visited

\* the first operand that decides an AND (a false one) or an OR (a true one),
\* or the last operand when none does
DecidingOperand(deciding) ==
  IF \E j \in 1..NOperands : Operand(j).val = deciding
  THEN CHOOSE j \in 1..NOperands :
         /\ Operand(j).val = deciding
         /\ \A i \in 1..(j - 1) : Operand(i).val # deciding
  ELSE NOperands

\* C10: when no operand faults, an AND node is true iff every operand is, an OR
\* node iff some operand is, a NOT node iff its operand is false; the operands
\* are evaluated left to right up to the first one that decides the result, and
\* no further.
C10_BooleanCombination ==
  (/\ pc = "matched"
   /\ expression.kind = "BooleanExpr"
   /\ \A j \in 1..NOperands : ~Operand(j).fault)
  => /\ outcome.status = "returned"
     /\ ~outcome.logged
     /\ IsNode("AND") =>
          /\ outcome.value = (\A j \in 1..NOperands : Operand(j).val)
          /\ outcome.visited = VisitedUpTo(DecidingOperand(FALSE))
     /\ IsNode("OR") =>
          /\ outcome.value = (\E j \in 1..NOperands : Operand(j).val)
          /\ outcome.visited = VisitedUpTo(DecidingOperand(TRUE))
     /\ IsNode("NOT") => outcome.value = ~Operand(1).val

C10_Witness ==
  /\ pc = "matched"
  /\ IsNode("AND")
  /\ NOperands = 3
  /\ \A j \in 1..NOperands : ~Operand(j).fault
  /\ Operand(1).val
  /\ ~Operand(2).val
  /\ outcome.value = FALSE
  /\ Len(outcome.visited) = 2

\* the value of the field the condition names, and the condition's literal
FieldValue == GetAttr(listing, FieldName(expression.field))
Literal == expression.value
FieldPresent == expression.kind = "Condition" /\ FieldValue.t # "none"
IsNumber(x) == x.t \in {"int", "dec", "float"}
\* the number a value stands for, in hundredths: a literal as it is written
Hundredths(x) == IF x.t = "int" THEN 100 * x.v ELSE x.v

\* = as the claim states it: two strings without regard to case, two numbers
\* by their exact value, a string and a number never
ExactlyEqual(a, b) ==
  IF a.t = "str" /\ b.t = "str" THEN Lower(a.v) = Lower(b.v)
  ELSE IF IsNumber(a) /\ IsNumber(b) THEN Hundredths(a) = Hundredths(b)
  ELSE FALSE

\* C11: on a present field, = is true exactly when field and literal are equal
\* (two strings without regard to case, any other pair by exact value), and !=
\* is true exactly when = is false.
C11_Equality ==
  (/\ pc = "matched"
   /\ FieldPresent
   /\ expression.operator \in {"=", "!="})
  => /\ outcome.status = "returned"
     /\ outcome.value = ((expression.operator = "=") = ExactlyEqual(FieldValue, Literal))

\* a literal that is no number, against a numeric field
UncoercibleLiteral ==
  /\ FieldPresent
  /\ expression.operator \in {"<", ">", "<=", ">="}
  /\ FieldValue.t \in {"dec", "int"}
  /\ Literal.t = "str"
  /\ ~IsIntegerText(Literal.v)

\* C12: an ordering condition whose literal cannot be coerced to the numeric
\* type of the present field returns false and raises nothing, for a Decimal
\* field as for an integer field.
C12_CoercionFailureIsFalse ==
  (pc = "matched" /\ HasId /\ UncoercibleLiteral) =>
    /\ outcome.status = "returned"
    /\ outcome.value = FALSE
    /\ ~outcome.logged

PriceAgainstNumber ==
  /\ FieldPresent
  /\ FieldName(expression.field) = "price"
  /\ FieldValue.t = "dec"
  /\ Literal.t \in {"int", "float"}

\* C13: for a present Decimal price p and a numeric literal n, price < n is true
\* iff p < n, <= iff p <= n, > iff p > n, >= iff p >= n, by exact value.
C13_PriceOrdering ==
  (/\ pc = "matched"
   /\ PriceAgainstNumber
   /\ expression.operator \in {"<", ">", "<=", ">="})
  => /\ outcome.status = "returned"
     /\ ~outcome.logged
     /\ outcome.value =
          (CASE expression.operator = "<" -> FieldValue.v < Hundredths(Literal)
             [] expression.operator = "<=" -> FieldValue.v <= Hundredths(Literal)
             [] expression.operator = ">" -> FieldValue.v > Hundredths(Literal)
             [] OTHER -> FieldValue.v >= Hundredths(Literal))

C13_Witness ==
  /\ pc = "matched"
  /\ PriceAgainstNumber
  /\ expression.operator = "<="
  /\ Literal = PyFloat(99999)
  /\ FieldValue = PyDecimal(99999)
  /\ outcome.value = TRUE

\* C14: a matches condition on a present field is true exactly when the literal,
\* as a case-insensitive regular expression, is found in the field's string form.
\* The literals of the model hold no metacharacter: the pattern is found exactly
\* where the text is, without regard to case.
C14_RegexSearch ==
  (/\ pc = "matched"
   /\ HasId
   /\ FieldPresent
   /\ expression.operator = "matches"
   /\ Literal.t = "str")
  => /\ outcome.status = "returned"
     /\ outcome.value = Substring(Lower(StrOf(FieldValue)), Lower(Literal.v))

\* C15: a fuzzy_contains condition on a present field is true whenever the
\* similarity of literal and field exceeds the threshold; a literal the field's
\* string form contains, without regard to case, has the full similarity.
C15_FuzzyContains ==
  (/\ pc = "matched"
   /\ HasId
   /\ FieldPresent
   /\ expression.operator = "fuzzy_contains"
   /\ Literal.t = "str"
   /\ Substring(Lower(StrOf(FieldValue)), Lower(Literal.v)))
  => (outcome.status = "returned" /\ outcome.value = TRUE)

\* the attribute an alias stands for
CanonicalOf(alias) ==
  CASE alias = "seller" -> "seller_username"
    [] alias = "type" -> "listing_type"
    [] OTHER -> "shipping_regions"
Aliases == {"seller", "type", "shipping", "ships_to"}
SameAnswer(a, b) ==
  a.status = b.status /\ a.value = b.value /\ a.logged = b.logged

\* C16: a condition on an alias gives the result of the same condition on the
\* attribute the alias stands for, for every operator, literal and record; a
\* condition on a name that is no alias and no attribute of the record gets the
\* missing-value result and raises nothing.
C16_FieldResolution ==
  (pc = "matched" /\ expression.kind = "Condition") =>
    /\ expression.field \in Aliases =>
         SameAnswer(outcome,
                    Matches(Condition(CanonicalOf(expression.field),
                                      expression.operator, expression.value),
                            listing))
    /\ (/\ expression.field \notin DOMAIN FIELD_MAPPING
        /\ expression.field \notin DOMAIN listing)
       => /\ outcome.status = "returned"
          /\ ~outcome.logged
          /\ outcome.value = (expression.operator = "!=")

C16_Witness ==
  /\ pc = "matched"
  /\ expression.kind = "Condition"
  /\ expression.field = "seller"
  /\ expression.operator = "<"
  /\ Literal = PyStr(HD)
  /\ outcome.value = TRUE

(***************************************************************************)
(* Claims about the parser, checked under ParserSpec.                      *)
(***************************************************************************)
\* the Condition a well-formed condition fragment stands for
ExpectedCondition(f) ==
  IF f = CondA THEN Condition("price", "<", PyFloat(950))
  ELSE Condition("title", "matches", PyStr(<<BSL, "s">>))

Not1(a) == BooleanExpr("NOT", <<a>>)
And2(a, b) == BooleanExpr("AND", <<a, b>>)
Or2(a, b) == BooleanExpr("OR", <<a, b>>)
Returns(ast) == result.ok /\ result.ast = ast

\* C5: NOT binds tighter than AND, AND tighter than OR: A OR B AND C parses to
\* OR[A, AND[B, C]], A AND B OR C to OR[AND[A, B], C], NOT A AND B to
\* AND[NOT[A], B] and NOT A OR B to OR[NOT[A], B], for all conditions A, B, C.
C5_Precedence ==
  pc = "parsed" =>
    \A a, b, c \in TextConditions :
      LET A == ExpectedCondition(a)
          B == ExpectedCondition(b)
          C == ExpectedCondition(c)
      IN /\ text = <<a, <<KwOR>>, b, <<KwAND>>, c>> => Returns(Or2(A, And2(B, C)))
         /\ text = <<a, <<KwAND>>, b, <<KwOR>>, c>> => Returns(Or2(And2(A, B), C))
         /\ text = <<<<KwNOT>>, a, <<KwAND>>, b>> => Returns(And2(Not1(A), B))
         /\ text = <<<<KwNOT>>, a, <<KwOR>>, b>> => Returns(Or2(Not1(A), B))

C5_Witness ==
  /\ pc = "parsed"
  /\ text = <<CondA, <<KwOR>>, CondB, <<KwAND>>, CondA>>
  /\ result.ok
  /\ result.ast.operator = "OR"
  /\ result.ast.operands[2].kind = "BooleanExpr"

\* an unparenthesized chain: condition, kw, condition, kw, condition ...
IsChainOf(kw) ==
  /\ Len(text) >= 3
  /\ Len(text) % 2 = 1
  /\ \A j \in 1..Len(text) :
       IF j % 2 = 1 THEN text[j] \in TextConditions ELSE text[j] = <<kw>>

\* C6: a chain of n >= 2 conditions joined by the same keyword (all AND, or all
\* OR) parses to one BooleanExpr of that operator whose operands are exactly the
\* n conditions in source order.
C6_Flattening ==
  pc = "parsed" =>
    \A kw \in {KwAND, KwOR} :
      IsChainOf(kw) =>
        Returns(BooleanExpr(kw.v, [j \in 1..((Len(text) + 1) \div 2) |->
                                     ExpectedCondition(text[2 * j - 1])]))

C6_Witness ==
  /\ pc = "parsed"
  /\ text = <<CondA, <<KwAND>>, CondB, <<KwAND>>, CondA>>
  /\ result.ok
  /\ Len(result.ast.operands) = 3

RECURSIVE WellFormed(_)
WellFormed(e) ==
  /\ "kind" \in DOMAIN e
  /\ e.kind \in {"Condition", "BooleanExpr"}
  /\ e.kind = "Condition" => e.operator \in Operators
  /\ e.kind = "BooleanExpr" =>
       /\ e.operator \in {"AND", "OR", "NOT"}
       /\ e.operator = "NOT" => Len(e.operands) = 1
       /\ e.operator \in {"AND", "OR"} => Len(e.operands) >= 2
       /\ \A j \in 1..Len(e.operands) : WellFormed(e.operands[j])

\* C7: in every Expression parse returns, at every depth, a NOT node has exactly
\* one operand, an AND or OR node at least two, and every operand is a Condition
\* or a BooleanExpr.
C7_WellFormedAst == (pc = "parsed" /\ result.ok) => WellFormed(result.ast)

C7_Witness ==
  /\ pc = "parsed"
  /\ result.ok
  /\ result.ast.kind = "BooleanExpr"
  /\ result.ast.operator = "AND"
  /\ result.ast.operands[1].kind = "BooleanExpr"
  /\ result.ast.operands[1].operator = "NOT"

RECURSIVE Leaves(_)
RECURSIVE LeavesOf(_, _)
\* the conditions of an AST, left to right
Leaves(e) ==
  IF e.kind = "Condition" THEN <<e>> ELSE LeavesOf(e.operands, 1)
LeavesOf(operands, j) ==
  IF j > Len(operands) THEN <<>>
  ELSE Leaves(operands[j]) \o LeavesOf(operands, j + 1)

RECURSIVE TextLeaves(_)
\* the conditions a text spells, left to right
TextLeaves(frags) ==
  IF Len(frags) = 0 THEN <<>>
  ELSE (IF frags[1] \in TextConditions THEN <<ExpectedCondition(frags[1])>> ELSE <<>>)
       \o TextLeaves(Tail(frags))

RECURSIVE NotNodes(_)
RECURSIVE NotNodesOf(_, _)
NotNodes(e) ==
  IF e.kind = "Condition" THEN 0
  ELSE (IF e.operator = "NOT" THEN 1 ELSE 0) + NotNodesOf(e.operands, 1)
NotNodesOf(operands, j) ==
  IF j > Len(operands) THEN 0
  ELSE NotNodes(operands[j]) + NotNodesOf(operands, j + 1)

Count(f) == Cardinality({j \in 1..Len(text) : text[j] = f})
Prefix(n) == SubSeq(text, 1, n)

\* a complete expression followed by something that cannot continue it
HasTrailingInput ==
  \E n \in 1..(Len(text) - 1) :
    /\ Parse(Flatten(Prefix(n))).ok
    /\ \/ text[n + 1] \notin {<<KwAND>>, <<KwOR>>}
       \/ n + 1 = Len(text)

\* C8: parse returns an Expression that accounts for the whole text (all its
\* conditions in order, all its NOTs), or fails with an error carrying the text;
\* it fails for the empty text, a condition without value, an unknown operator,
\* unbalanced parentheses and trailing input, and what it returns is never the
\* parse of a proper prefix of the text.
C8_WholeInputOrError ==
  pc = "parsed" =>
    /\ result.ok = ~result.error.raised
    /\ result.error.raised => result.error.input = Flatten(text)
    /\ result.ok =>
         /\ Leaves(result.ast) = TextLeaves(text)
         /\ NotNodes(result.ast) = Count(<<KwNOT>>)
         /\ \A n \in 0..(Len(text) - 1) :
              LET p == Parse(Flatten(Prefix(n)))
              IN p.ok => p.ast # result.ast
    /\ text = <<>> => ~result.ok
    /\ (\E j \in 1..Len(text) : text[j] \in TextBroken) => ~result.ok
    /\ Count(<<LPar>>) # Count(<<RPar>>) => ~result.ok
    /\ HasTrailingInput => ~result.ok

C8_Witness ==
  /\ pc = "parsed"
  /\ text = <<CondA, <<KwAND>>, CondB, CondA>>
  /\ ~result.ok
  /\ result.error.input = Flatten(text)

\* C9: serializing the AST parse returned and parsing that text again yields an
\* AST equal to the first.
C9_RoundTrip ==
  pc = "reparsed" => (reparsed.ok /\ reparsed.ast = result.ast)

(***************************************************************************)
(* Texts with groups.  The text is typed so that it stays the beginning of *)
(* an expression: an operand where one is due, a binary keyword after an   *)
(* operand, a closing parenthesis for an open one.                         *)
(***************************************************************************)
\* fragments in a text with groups
MaxGroupChunks == 7
\* parentheses open at once
MaxDepth == 2

OperandDue ==
  IF Len(text) = 0 THEN TRUE
  ELSE text[Len(text)] \in {<<KwAND>>, <<KwOR>>, <<KwNOT>>, <<LPar>>}
OpenGroups == Count(<<LPar>>) - Count(<<RPar>>)

TypeGroupFragment(f) ==
  /\ pc = "typing"
  /\ Len(text) < MaxGroupChunks
  /\ text' = Append(text, f)
  /\ UNCHANGED <<pc, result, reparsed, expression, listing, outcome>>
  /\ UNCHANGED service
  /\ UNCHANGED extra

TypeOperand == OperandDue /\ \E f \in TextConditions : TypeGroupFragment(f)
TypeNot == OperandDue /\ TypeGroupFragment(<<KwNOT>>)
TypeOpen == OperandDue /\ OpenGroups < MaxDepth /\ TypeGroupFragment(<<LPar>>)
TypeBinary == ~OperandDue /\ \E f \in {<<KwAND>>, <<KwOR>>} : TypeGroupFragment(f)
TypeClose == ~OperandDue /\ OpenGroups > 0 /\ TypeGroupFragment(<<RPar>>)

GroupingNext ==
  \/ TypeOperand
  \/ TypeNot
  \/ TypeOpen
  \/ TypeBinary
  \/ TypeClose
  \/ ParseText

GroupingSpec == ParserInit /\ [][GroupingNext]_vars

\* the text with its j-th fragment, a condition, put between parentheses
Parenthesized(j) ==
  SubSeq(text, 1, j - 1) \o <<<<LPar>>, text[j], <<RPar>>>>
    \o SubSeq(text, j + 1, Len(text))

\* C17: a parenthesized expression may stand wherever a condition may, and
\* grouping overrides precedence: (A OR B) AND C parses to AND[OR[A, B], C],
\* NOT (A AND B) to NOT[AND[A, B]], for all conditions A, B, C; parentheses
\* around a single condition add no node, wherever the condition stands.
C17_Grouping ==
  pc = "parsed" =>
    /\ \A a, b, c \in TextConditions :
         LET A == ExpectedCondition(a)
             B == ExpectedCondition(b)
             C == ExpectedCondition(c)
         IN /\ text = <<<<LPar>>, a, <<KwOR>>, b, <<RPar>>, <<KwAND>>, c>>
                 => Returns(And2(Or2(A, B), C))
            /\ text = <<c, <<KwAND>>, <<LPar>>, a, <<KwOR>>, b, <<RPar>>>>
                 => Returns(And2(C, Or2(A, B)))
            /\ text = <<<<KwNOT>>, <<LPar>>, a, <<KwAND>>, b, <<RPar>>>>
                 => Returns(Not1(And2(A, B)))
            /\ text = <<<<LPar>>, a, <<RPar>>>> => Returns(A)
            /\ text = <<<<LPar>>, <<LPar>>, a, <<KwOR>>, b, <<RPar>>, <<RPar>>>>
                 => Returns(Or2(A, B))
    /\ \A j \in 1..Len(text) :
         text[j] \in TextConditions =>
           LET grouped == Parse(Flatten(Parenthesized(j)))
           IN grouped.ok = result.ok /\ grouped.ast = result.ast

C17_Witness ==
  /\ pc = "parsed"
  /\ text = <<<<LPar>>, CondA, <<KwOR>>, CondB, <<RPar>>, <<KwAND>>, CondA>>
  /\ result.ok
  /\ result.ast.operator = "AND"
  /\ result.ast.operands[1] = Or2(ExpectedCondition(CondA), ExpectedCondition(CondB))

(***************************************************************************)
(* The service around the matcher: the dashboard registers watch rules     *)
(* (dashboard/db.py), a scrape run upserts listings and processes them     *)
(* (cli.py _run_scrape_once, scheduler _run_scheduled_scrape), the         *)
(* orchestrator loads rules and processes listings (notifier/__init__.py). *)
(* Settings are the defaults, with the discord notifier enabled and every  *)
(* rule notifying via discord; settings.watch_rules is empty.              *)
(***************************************************************************)
\* rows of the watch_rules table
MaxRules == 2
\* listings the site shows
MaxListings == 1

ListingIds == 1..MaxListings

\* price < 1000
CondCheap == <<Tok("field", "price"), Tok("op", "<"), NumLit(1000, <<>>)>>
\* expressions a user types into the rule form
RuleExpressions == {CondCheap, CondB, UnknownOperator}

Active == PyStr(<<"a", "c", "t", "i", "v", "e">>)
Sold == PyStr(<<"s", "o", "l", "d">>)
Expired == PyStr(<<"e", "x", "p", "i", "r", "e", "d">>)
Deleted == PyStr(<<"d", "e", "l", "e", "t", "e", "d">>)

\* GlobalFilters.exclude_status default
EXCLUDE_STATUS == {Sold, Expired, Deleted}

\* what the scraper reads of a listing
ScrapedListings ==
  {[price |-> PyDecimal(99999), status |-> Active],
   [price |-> PyDecimal(100000), status |-> Active],
   [price |-> PyDecimal(99999), status |-> Sold]}

\* WatchRuleDB(name, expression, notify_via, enabled, ...)
WatchRuleDB(e, enabled) == [expression |-> e, enabled |-> enabled]

\* an optional argument: given, or left at None
Given(v) == [given |-> TRUE, value |-> v]
NotGivenExpression == [given |-> FALSE, value |-> <<>>]
NotGivenEnabled == [given |-> FALSE, value |-> FALSE]

\* create_watch_rule(name, expression, notify_via, enabled): the row is added
\* and committed as it is given
CreateWatchRule ==
  /\ Len(watch_rules) < MaxRules
  /\ \E e \in RuleExpressions, enabled \in BOOLEAN :
       /\ watch_rules' = Append(watch_rules, WatchRuleDB(e, enabled))
       /\ trace' = [NoTrace EXCEPT !.op = "create",
                                   !.rules = <<WatchRuleDB(e, enabled)>>]
  /\ UNCHANGED <<rule_evaluators, db_listings, notification_log>>
  /\ UNCHANGED <<text, pc, result, reparsed, expression, listing, outcome>>
  /\ UNCHANGED extra

\* update_watch_rule(rule_id, name, expression, notify_via, enabled)
UpdateWatchRule ==
  /\ \E rule_id \in 1..MaxRules,
        e \in {Given(x) : x \in RuleExpressions} \cup {NotGivenExpression},
        enabled \in {Given(TRUE), Given(FALSE), NotGivenEnabled} :
       IF rule_id \notin DOMAIN watch_rules
       THEN /\ trace' = [NoTrace EXCEPT !.op = "update"]
            /\ UNCHANGED watch_rules
       ELSE LET rule == watch_rules[rule_id]
                updated ==
                  WatchRuleDB(IF e.given THEN e.value ELSE rule.expression,
                              IF enabled.given THEN enabled.value ELSE rule.enabled)
            IN /\ watch_rules' = [watch_rules EXCEPT ![rule_id] = updated]
               /\ trace' = [NoTrace EXCEPT !.op = "update",
                                           !.rules = IF e.given
                                                     THEN <<WatchRuleDB(e.value, updated.enabled)>>
                                                     ELSE <<>>]
  /\ UNCHANGED <<rule_evaluators, db_listings, notification_log>>
  /\ UNCHANGED <<text, pc, result, reparsed, expression, listing, outcome>>
  /\ UNCHANGED extra

\* the row of a rule with its primary key
RuleRow(rule_id) ==
  [id |-> rule_id, expression |-> watch_rules[rule_id].expression,
   enabled |-> watch_rules[rule_id].enabled]

RECURSIVE RowsOf(_, _)
\* the rows with the given ids, by id (order_by created_at)
RowsOf(ids, from) ==
  IF from > Len(watch_rules) THEN <<>>
  ELSE (IF from \in ids THEN <<RuleRow(from)>> ELSE <<>>) \o RowsOf(ids, from + 1)

\* WatchRuleRepository.get_enabled()
GetEnabled == RowsOf({j \in DOMAIN watch_rules : watch_rules[j].enabled}, 1)

\* RuleEvaluator.from_string(expression_str): parse_expression, which raises
\* ValueError for a text the grammar does not accept
FromString(expression_str) == Parse(expression_str)

\* self._rule_evaluators[rule.id] = (rule, evaluator, categories, rule_filters)
Put(evaluators, rule, evaluator) ==
  [k \in DOMAIN evaluators \cup {rule.id} |->
     IF k = rule.id THEN [rule |-> rule, evaluator |-> evaluator] ELSE evaluators[k]]

\* slip: a rule kept whether or not its expression parsed
RegistersUnparsed(rule, parsed) == rule.enabled

\* a rule reaches the assignment in load_rules' loop: it is enabled (else
\* continue) and from_string raised nothing (else the except clause logs)
Registers(rule, parsed) == rule.enabled /\ ~parsed.error.raised

RECURSIVE LoadRulesLoop(_, _, _)
\* for rule in rules: ... in load_rules, from the j-th rule on
LoadRulesLoop(rules, j, evaluators) ==
  IF j > Len(rules) THEN evaluators
  ELSE LET rule == rules[j]
           parsed == FromString(rule.expression)
       IN LoadRulesLoop(rules, j + 1,
                        IF Registers(rule, parsed)
                        THEN Put(evaluators, rule, parsed.ast)
                        ELSE evaluators)

\* orchestrator.load_rules(rules): clear, then the loop; every Exception of the
\* loop's body is caught and logged
LoadRules ==
  /\ \E ids \in SUBSET DOMAIN watch_rules :
       LET rules == RowsOf(ids, 1)
       IN /\ rule_evaluators' = LoadRulesLoop(rules, 1, <<>>)
          /\ trace' = [NoTrace EXCEPT !.op = "load", !.rules = rules]
  /\ UNCHANGED <<watch_rules, db_listings, notification_log>>
  /\ UNCHANGED <<text, pc, result, reparsed, expression, listing, outcome>>
  /\ UNCHANGED extra

\* passes_global_filters with the default GlobalFilters: only exclude_status is set
PassesGlobalFilters(l) ==
  ~\E excluded \in EXCLUDE_STATUS : Lower(l.status.v) = Lower(excluded.v)

\* passes_rule_filters: a database rule has no categories and no filters of its own
PassesRuleFilters(l) == PassesGlobalFilters(l)

\* slip: only a pair whose every logged attempt succeeded counts
HasBeenNotifiedEveryTime(log, listing_id, rule_id) ==
  /\ \E n \in log : n.listing_id = listing_id /\ n.rule_id = rule_id /\ n.success
  /\ \A n \in log : (n.listing_id = listing_id /\ n.rule_id = rule_id) => n.success

\* NotificationLogRepository.has_been_notified
HasBeenNotified(log, listing_id, rule_id) ==
  \E n \in log : n.listing_id = listing_id /\ n.rule_id = rule_id /\ n.success

\* the rules of process_listing's loop that get as far as evaluator.matches
Evaluated(evaluators, l, log) ==
  {rule_id \in DOMAIN evaluators :
     /\ PassesRuleFilters(l)
     /\ ~(rule_id > 0 /\ HasBeenNotified(log, l.id.v, rule_id))}

\* ... and those whose evaluator matches: a notification is sent via discord
Notified(evaluators, l, log) ==
  {rule_id \in Evaluated(evaluators, l, log) :
     Matches(evaluators[rule_id].evaluator, l).value}

\* process_listing(listing); success is what notifier.send returns
ProcessListingWith(evaluators, l, log, success) ==
  [evaluated |-> {<<l.id.v, rule_id>> : rule_id \in Evaluated(evaluators, l, log)},
   sent |-> {<<l.id.v, rule_id>> : rule_id \in Notified(evaluators, l, log)},
   log |-> {[listing_id |-> l.id.v, rule_id |-> rule_id, success |-> success] :
              rule_id \in {r \in Notified(evaluators, l, log) : r > 0}}]

\* process_listings(listings): process_listing for each
ProcessListingsWith(evaluators, ls, log, success) ==
  [evaluated |-> UNION {ProcessListingWith(evaluators, l, log, success).evaluated : l \in ls},
   sent |-> UNION {ProcessListingWith(evaluators, l, log, success).sent : l \in ls},
   log |-> UNION {ProcessListingWith(evaluators, l, log, success).log : l \in ls}]

\* orchestrator.process_listing(listing) on a stored listing
ProcessListing ==
  /\ \E id \in DOMAIN db_listings, success \in BOOLEAN :
       LET r == ProcessListingWith(rule_evaluators, db_listings[id],
                                   notification_log, success)
       IN /\ notification_log' = notification_log \cup r.log
          /\ trace' = [NoTrace EXCEPT !.op = "process", !.evaluated = r.evaluated,
                                      !.sent = r.sent]
  /\ UNCHANGED <<watch_rules, rule_evaluators, db_listings>>
  /\ UNCHANGED <<text, pc, result, reparsed, expression, listing, outcome>>
  /\ UNCHANGED extra

\* the listing id as the site writes it
IdText(id) == <<Digits[id + 1]>>

\* the Listing row upsert_from_scraped writes, inserting or updating
ListingOf(id, scraped) ==
  [id |-> PyStr(IdText(id)), title |-> PyStr(<<"H", "D", "8">>),
   price |-> scraped.price, status |-> scraped.status]

\* a scrape run: every scraped listing is upserted; the new ones are collected
\* and, if there are any and any rule is enabled, processed by a fresh
\* orchestrator loaded with the enabled rules
RunScrape ==
  /\ \E ids \in SUBSET ListingIds :
     \E batch \in [ids -> ScrapedListings], success \in BOOLEAN :
       LET new_listings == {ListingOf(id, batch[id]) : id \in ids \ DOMAIN db_listings}
           all_rules == GetEnabled
           evaluators == LoadRulesLoop(all_rules, 1, <<>>)
           r == IF new_listings # {} /\ Len(all_rules) > 0
                THEN ProcessListingsWith(evaluators, new_listings, notification_log, success)
                ELSE [evaluated |-> {}, sent |-> {}, log |-> {}]
       IN /\ ids # {}
          /\ db_listings' = [id \in DOMAIN db_listings \cup ids |->
                               IF id \in ids THEN ListingOf(id, batch[id])
                               ELSE db_listings[id]]
          /\ notification_log' = notification_log \cup r.log
          /\ trace' = [NoTrace EXCEPT !.op = "scrape", !.rules = all_rules,
                                      !.upserted = ids,
                                      !.evaluated = r.evaluated, !.sent = r.sent]
  /\ UNCHANGED <<watch_rules, rule_evaluators>>
  /\ UNCHANGED <<text, pc, result, reparsed, expression, listing, outcome>>
  /\ UNCHANGED extra

\* the dashboard and the scrape runs, from empty tables
ServiceNext ==
  \/ CreateWatchRule
  \/ UpdateWatchRule
  \/ RunScrape

ServiceSpec == ParserInit /\ [][ServiceNext]_vars

\* the watch_rules table as the dashboard can have left it
RuleTables ==
  UNION {[1..n -> {WatchRuleDB(e, enabled) : e \in RuleExpressions, enabled \in BOOLEAN}] :
           n \in 0..MaxRules}

\* an orchestrator over some watch_rules table and one stored listing
OrchestratorInit ==
  /\ text = <<>>
  /\ pc = "typing"
  /\ result = NoResult
  /\ reparsed = NoResult
  /\ expression = NoAst
  /\ listing = NoListing
  /\ outcome = NoOutcome
  /\ watch_rules \in RuleTables
  /\ rule_evaluators = <<>>
  /\ db_listings \in {[id \in {1} |-> ListingOf(1, scraped)] : scraped \in ScrapedListings}
  /\ notification_log = {}
  /\ trace = NoTrace
  /\ ExtraInit

OrchestratorNext ==
  \/ LoadRules
  \/ ProcessListing

OrchestratorSpec == OrchestratorInit /\ [][OrchestratorNext]_vars

(***************************************************************************)
(* Claims about the service.                                               *)
(***************************************************************************)
WellFormedRule(rule) == Parse(rule.expression).ok
\* the rules of the list given to load_rules that are enabled and well-formed
Loadable ==
  {trace.rules[j] : j \in {k \in 1..Len(trace.rules) :
                            trace.rules[k].enabled /\ WellFormedRule(trace.rules[k])}}

\* C18: load_rules given a list in which some rules are malformed does not
\* raise; afterwards exactly the enabled rules with well-formed expressions are
\* registered, each with the evaluator of its own expression whatever else the
\* list holds, and process_listing evaluates and notifies for registered,
\* well-formed rules only.
C18_LoadRulesSkipsMalformed ==
  /\ trace.op = "load" =>
       /\ ~trace.raised
       /\ DOMAIN rule_evaluators = {rule.id : rule \in Loadable}
       /\ \A rule \in Loadable :
            rule_evaluators[rule.id] =
              [rule |-> rule, evaluator |-> Parse(rule.expression).ast]
  /\ trace.op = "process" =>
       \A pair \in trace.evaluated \cup trace.sent :
         /\ pair[2] \in DOMAIN rule_evaluators
         /\ rule_evaluators[pair[2]].rule.enabled
         /\ WellFormedRule(rule_evaluators[pair[2]].rule)

C18_Witness ==
  /\ trace.op = "load"
  /\ Len(trace.rules) = 2
  /\ trace.rules[1].enabled /\ ~WellFormedRule(trace.rules[1])
  /\ trace.rules[2].enabled /\ WellFormedRule(trace.rules[2])
  /\ DOMAIN rule_evaluators = {2}
  /\ rule_evaluators[2].evaluator = Condition("price", "<", PyInt(1000))

\* C19: creating a watch rule, or updating its expression, with a malformed
\* expression is rejected with a diagnostic, and no malformed expression is
\* stored in the watch_rules table.
C19_MalformedRuleRejected ==
  /\ trace.op \in {"create", "update"} =>
       \A j \in 1..Len(trace.rules) :
         ~WellFormedRule(trace.rules[j]) => trace.raised
  /\ \A rule_id \in DOMAIN watch_rules : WellFormedRule(watch_rules[rule_id])

\* C20: in a scrape run, each listing the run inserted or updated is evaluated
\* against every enabled, well-formed watch rule; here for the listings the
\* filters let through and the rules not yet notified for them.
C20_UpsertedAreEvaluated ==
  trace.op = "scrape" =>
    \A id \in trace.upserted :
      \A j \in 1..Len(trace.rules) :
        (/\ WellFormedRule(trace.rules[j])
         /\ PassesRuleFilters(db_listings[id])
         /\ ~HasBeenNotified(notification_log, IdText(id), trace.rules[j].id))
        => <<IdText(id), trace.rules[j].id>> \in trace.evaluated

(***************************************************************************)
(* Records of another shape: a mapping holding the contract's fields as    *)
(* keys.  Its attributes are those of the mapping type; its keys are none  *)
(* of them.                                                                *)
(***************************************************************************)
\* {"id": ..., "title": ..., "price": ...}: the items are reached by subscript,
\* not by getattr
AsMapping(l) == [dict_items |-> l]
IsMapping(l) == "dict_items" \in DOMAIN l

\* evaluator.matches(record) for a mapping record
MatchMapping ==
  /\ pc = "ready"
  /\ \E l \in ContractRecords :
       /\ listing' = AsMapping(WithId(l))
       /\ outcome' = Matches(expression, AsMapping(WithId(l)))
  /\ pc' = "matched"
  /\ UNCHANGED <<text, result, reparsed, expression>>
  /\ UNCHANGED service
  /\ UNCHANGED extra

MappingNext ==
  \/ MatchListing
  \/ MatchMapping

MappingSpec == EvaluatorInit /\ [][MappingNext]_vars

\* C21: a record exposing the contract's fields as mapping keys gets the same
\* matches result as the record exposing the same values as attributes, for
\* every expression.
C21_ShapeIndependent ==
  (pc = "matched" /\ IsMapping(listing)) =>
    SameAnswer(outcome, Matches(expression, listing.dict_items))

(***************************************************************************)
(* One evaluator shared by several workers.  RuleEvaluator.matches keeps   *)
(* the listing and the position in the operand list in the frames of the   *)
(* call (arguments and the generator of all()/any()); the evaluator object *)
(* holds the expression only.  A step of a worker evaluates the next       *)
(* operand of the root; steps of different workers interleave freely.      *)
(***************************************************************************)
MaxWorkers == 2

Workers == 1..MaxWorkers

SharedExpressions ==
  OperandPool \cup {BooleanExpr("NOT", <<c>>) : c \in OperandPool} \cup PairNodes
    \cup {BooleanExpr("NOT", <<e>>) : e \in PairNodes}

ConcurrentInit ==
  /\ text = <<>>
  /\ pc = "shared"
  /\ result = NoResult
  /\ reparsed = NoResult
  /\ expression \in SharedExpressions
  /\ listing = NoListing
  /\ outcome = NoOutcome
  /\ ServiceInit

FrameShared(w) == 1

\* the frame of worker w's call of matches: a call's arguments and locals
\* live in its own frame
FrameOf(w) == w

Calling(w) == w \in DOMAIN workers.calls /\ workers.calls[w].pc = "running"

\* a worker calls evaluator.matches(l)
CallMatches(w, l) ==
  /\ pc = "shared"
  /\ w \notin DOMAIN workers.calls
  /\ workers' =
       [frames |-> [f \in DOMAIN workers.frames \cup {FrameOf(w)} |->
                      IF f = FrameOf(w)
                      THEN [listing |-> l, j |-> 1, visited |-> <<>>]
                      ELSE workers.frames[f]],
        calls |-> [v \in DOMAIN workers.calls \cup {w} |->
                     IF v = w
                     THEN [pc |-> "running", listing |-> l, expression |-> expression,
                           outcome |-> NoOutcome]
                     ELSE workers.calls[v]]]
  /\ UNCHANGED <<text, pc, result, reparsed, expression, listing, outcome>>
  /\ UNCHANGED service
  /\ UNCHANGED <<callers, config, sched>>

ReturnsTo(w, r, l) ==
  [workers EXCEPT !.calls[w].pc = "done", !.calls[w].outcome = Handled(r, l)]

\* the next step of worker w's call: the whole node when the root is a
\* condition or a NOT, otherwise one operand of all()/any()
StepMatches(w) ==
  /\ pc = "shared"
  /\ Calling(w)
  /\ LET f == workers.frames[FrameOf(w)]
         e == expression
     IN IF e.kind = "Condition" \/ e.operator = "NOT"
        THEN workers' = ReturnsTo(w, Evaluate(e, f.listing), f.listing)
        ELSE IF f.j > Len(e.operands)
        THEN workers' = ReturnsTo(w, [fault |-> FALSE, val |-> e.operator = "AND",
                                    visited |-> f.visited], f.listing)
        ELSE LET r == Evaluate(e.operands[f.j], f.listing)
                 seen == f.visited \o r.visited
             IN IF r.fault \/ Decides(e.operator, r.val)
                THEN workers' = ReturnsTo(w, [fault |-> r.fault, val |-> r.val,
                                            visited |-> seen], f.listing)
                ELSE workers' = [workers EXCEPT
                                   !.frames[FrameOf(w)].j = f.j + 1,
                                   !.frames[FrameOf(w)].visited = seen]
  /\ UNCHANGED <<text, pc, result, reparsed, expression, listing, outcome>>
  /\ UNCHANGED service
  /\ UNCHANGED <<callers, config, sched>>

ConcurrentNext ==
  \/ \E w \in Workers : \E l \in ContractRecords : CallMatches(w, WithId(l))
  \/ \E w \in Workers : StepMatches(w)

ConcurrentSpec == ConcurrentInit /\ [][ConcurrentNext]_vars

\* C22: every call of matches on the shared evaluator, whatever the other
\* workers do in between, returns what evaluating its record alone returns,
\* while the expression and the record it was given stay as they were
C22_ConcurrentEvaluation ==
  \A w \in DOMAIN workers.calls :
    LET call == workers.calls[w]
    IN /\ call.expression = expression
       /\ call.pc = "running" => workers.frames[FrameOf(w)].listing = call.listing
       /\ call.pc = "done" => call.outcome = Matches(expression, call.listing)

C22_Witness ==
  /\ expression.kind = "BooleanExpr"
  /\ Len(expression.operands) = 2
  /\ DOMAIN workers.calls = Workers
  /\ \A w \in Workers : workers.calls[w].pc = "done"
  /\ \E v, w \in Workers :
       /\ workers.calls[v].listing # workers.calls[w].listing
       /\ workers.calls[v].outcome.value # workers.calls[w].outcome.value
       /\ Len(workers.calls[w].outcome.visited) = 2

(***************************************************************************)
(* The first calls of parse_expression, made by several threads.  The      *)
(* module global _parser is 0 (None) or the identity of a RuleParser       *)
(* object in the heap; an object has its grammar once __init__ has         *)
(* returned.  A thread may be preempted between any two steps.             *)
(***************************************************************************)
MaxCallers == 2

Callers == 1..MaxCallers

CallerTexts ==
  {CondA, CondA \o <<KwAND>> \o CondB, <<KwNOT>> \o CondB, MissingValue,
   CondA \o <<KwOR>>}

\* RuleParser.parse on object o: an object without _parser raises
\* AttributeError inside the try, reported as ValueError like every failure
ParseWith(o, toks) ==
  IF o.grammar
  THEN Parse(toks)
  ELSE [ok |-> FALSE, ast |-> NoAst, error |-> [raised |-> TRUE, input |-> toks]]

CallerAt(t, where) == t \in DOMAIN callers.calls /\ callers.calls[t].pc = where

\* a thread calls parse_expression(toks)
CallParseExpression(t, toks) ==
  /\ pc = "first use"
  /\ t \notin DOMAIN callers.calls
  /\ callers' = [callers EXCEPT !.calls =
       [v \in DOMAIN callers.calls \cup {t} |->
          IF v = t
          THEN [pc |-> "check", text |-> toks, local |-> 0, got |-> 0,
                result |-> NoResult]
          ELSE callers.calls[v]]]
  /\ UNCHANGED <<text, pc, result, reparsed, expression, listing, outcome>>
  /\ UNCHANGED service
  /\ UNCHANGED <<workers, config, sched>>

\* get_parser: if _parser is None
CheckParser(t) ==
  /\ CallerAt(t, "check")
  /\ callers' = [callers EXCEPT !.calls[t].pc =
       IF callers.parser = 0 THEN "new" ELSE "return"]
  /\ UNCHANGED <<text, pc, result, reparsed, expression, listing, outcome>>
  /\ UNCHANGED service
  /\ UNCHANGED <<workers, config, sched>>

\* RuleParser(): the new object, before __init__ has run
NewRuleParser(t) ==
  /\ CallerAt(t, "new")
  /\ callers' = [callers EXCEPT !.heap = Append(@, [grammar |-> FALSE]),
                                !.calls[t].local = Len(callers.heap) + 1,
                                !.calls[t].pc = "init"]
  /\ UNCHANGED <<text, pc, result, reparsed, expression, listing, outcome>>
  /\ UNCHANGED service
  /\ UNCHANGED <<workers, config, sched>>

\* RuleParser.__init__: self._parser = self._build_parser()
BuildParser(t) ==
  /\ CallerAt(t, "init")
  /\ callers' = [callers EXCEPT !.heap[callers.calls[t].local].grammar = TRUE,
                                !.calls[t].pc = "assign"]
  /\ UNCHANGED <<text, pc, result, reparsed, expression, listing, outcome>>
  /\ UNCHANGED service
  /\ UNCHANGED <<workers, config, sched>>

AssignUnbuilt(t) ==
  /\ CallerAt(t, "init")
  /\ callers' = [callers EXCEPT !.parser = callers.calls[t].local,
                                !.calls[t].pc = "return"]
  /\ UNCHANGED <<text, pc, result, reparsed, expression, listing, outcome>>
  /\ UNCHANGED service
  /\ UNCHANGED <<workers, config, sched>>

\* get_parser: _parser = <the object RuleParser() returned>
AssignParser(t) ==
  /\ CallerAt(t, "assign")
  /\ callers' = [callers EXCEPT !.parser = callers.calls[t].local,
                                !.calls[t].pc = "return"]
  /\ UNCHANGED <<text, pc, result, reparsed, expression, listing, outcome>>
  /\ UNCHANGED service
  /\ UNCHANGED <<workers, config, sched>>

\* get_parser: return _parser (the global is read again)
ReturnParser(t) ==
  /\ CallerAt(t, "return")
  /\ callers' = [callers EXCEPT !.calls[t].got = callers.parser,
                                !.calls[t].pc = "parse"]
  /\ UNCHANGED <<text, pc, result, reparsed, expression, listing, outcome>>
  /\ UNCHANGED service
  /\ UNCHANGED <<workers, config, sched>>

\* parse_expression: get_parser().parse(expression)
ParseWithParser(t) ==
  /\ CallerAt(t, "parse")
  /\ callers' = [callers EXCEPT
       !.calls[t].result = ParseWith(callers.heap[callers.calls[t].got],
                                     callers.calls[t].text),
       !.calls[t].pc = "done"]
  /\ UNCHANGED <<text, pc, result, reparsed, expression, listing, outcome>>
  /\ UNCHANGED service
  /\ UNCHANGED <<workers, config, sched>>

FirstUseInit ==
  /\ ServiceInit
  /\ text = <<>>
  /\ pc = "first use"
  /\ result = NoResult
  /\ reparsed = NoResult
  /\ expression = NoAst
  /\ listing = NoListing
  /\ outcome = NoOutcome

FirstUseNext ==
  \/ \E t \in Callers : \E toks \in CallerTexts : CallParseExpression(t, toks)
  \/ \E t \in Callers : CheckParser(t)
  \/ \E t \in Callers : NewRuleParser(t)
  \/ \E t \in Callers : BuildParser(t)
  \/ \E t \in Callers : AssignParser(t)
  \/ \E t \in Callers : ReturnParser(t)
  \/ \E t \in Callers : ParseWithParser(t)

FirstUseSpec == FirstUseInit /\ [][FirstUseNext]_vars

\* C23: however the first calls of parse_expression interleave, each call
\* returns what a sequential parse of its text returns, and once a call has
\* returned the global holds one parser whose grammar is built; the global
\* never holds an object under construction
C23_FirstUseRace ==
  /\ callers.parser # 0 => callers.heap[callers.parser].grammar
  /\ \A t \in DOMAIN callers.calls :
       callers.calls[t].pc = "done" =>
         /\ callers.calls[t].result = Parse(callers.calls[t].text)
         /\ callers.parser # 0

\* two calls raced, the parser was built twice, and both calls are answered
C23_Witness ==
  /\ DOMAIN callers.calls = Callers
  /\ \A t \in Callers : callers.calls[t].pc = "done"
  /\ Len(callers.heap) = 2
  /\ \E t \in Callers : callers.calls[t].got # callers.calls[t].local
  /\ \E t, u \in Callers : callers.calls[t].result.ok /\ ~callers.calls[u].result.ok

(***************************************************************************)
(* The orchestrator under configured settings: global filters, config-file *)
(* watch rules with categories and filters of their own, two notification  *)
(* channels.  config holds the settings, the class attribute               *)
(* _ConfigRuleWrapper._id_counter of the process, and the number of scrape *)
(* runs the process has made.                                              *)
(***************************************************************************)
\* scrape runs of one process
MaxRuns == 2
\* rules in the configuration file
MaxConfigRules == 2
\* listings the site shows during those runs
MaxSeen == 2

PyList(s) == [t |-> "list", v |-> s]

\* the truth value of an optional str or list
Truthy(x) == IF x = None THEN FALSE ELSE Len(x.v) > 0

\* value.lower() == item.lower() for some item of the list
AmongLowered(items, value) ==
  \E j \in 1..Len(items.v) : Lower(value.v) = Lower(items.v[j])

\* region.lower() in listing.shipping_regions.lower() for some region
ShipsToAny(regions, value) ==
  \E j \in 1..Len(regions.v) : Substring(Lower(value.v), Lower(regions.v[j]))

\* listing.seller_reputation is None or listing.seller_reputation < min_rep
BelowReputation(min_rep, l) ==
  IF l.seller_reputation = None THEN TRUE ELSE l.seller_reputation.v < min_rep.v

\* NotificationOrchestrator.passes_global_filters
PassesGlobalFiltersOf(filters, l) ==
  /\ (Truthy(filters.listing_types) /\ Truthy(l.listing_type))
       => AmongLowered(filters.listing_types, l.listing_type)
  /\ (Truthy(filters.exclude_listing_types) /\ Truthy(l.listing_type))
       => ~AmongLowered(filters.exclude_listing_types, l.listing_type)
  /\ (Truthy(filters.ships_to) /\ Truthy(l.shipping_regions))
       => ShipsToAny(filters.ships_to, l.shipping_regions)
  /\ (Truthy(filters.exclude_status) /\ Truthy(l.status))
       => ~AmongLowered(filters.exclude_status, l.status)
  /\ filters.min_seller_reputation # None
       => ~BelowReputation(filters.min_seller_reputation, l)

\* cat.lower() in listing_cat or listing_cat in cat.lower() for some cat
CategoryMatch(categories, category) ==
  \E j \in 1..Len(categories.v) :
    \/ Substring(Lower(category.v), Lower(categories.v[j]))
    \/ Substring(Lower(categories.v[j]), Lower(category.v))

\* rule_filters.x if rule_filters.x is not None else global_f.x
OrGlobal(rule_value, global_value) ==
  IF rule_value # None THEN rule_value ELSE global_value

\* NotificationOrchestrator.passes_rule_filters
PassesRuleFiltersOf(global_f, l, categories, rule_filters) ==
  IF Truthy(categories) /\ Truthy(l.category) /\ ~CategoryMatch(categories, l.category)
  THEN FALSE
  ELSE IF rule_filters = None
  THEN PassesGlobalFiltersOf(global_f, l)
  ELSE LET listing_types == OrGlobal(rule_filters.listing_types, global_f.listing_types)
           ships_to == OrGlobal(rule_filters.ships_to, global_f.ships_to)
           exclude_status == OrGlobal(rule_filters.exclude_status, global_f.exclude_status)
           min_rep == OrGlobal(rule_filters.min_seller_reputation,
                               global_f.min_seller_reputation)
       IN /\ (Truthy(listing_types) /\ Truthy(l.listing_type))
               => AmongLowered(listing_types, l.listing_type)
          /\ (Truthy(ships_to) /\ Truthy(l.shipping_regions))
               => ShipsToAny(ships_to, l.shipping_regions)
          /\ (Truthy(exclude_status) /\ Truthy(l.status))
               => ~AmongLowered(exclude_status, l.status)
          /\ min_rep # None => ~BelowReputation(min_rep, l)

ForSale == PyStr(<<"s", "a", "l", "e">>)
WantToBuy == PyStr(<<"w", "t", "b">>)
Headphones == PyStr(<<"h", "p">>)
Amplifiers == PyStr(<<"a", "m", "p">>)

\* RuleFilters(listing_types, ships_to, exclude_status, min_seller_reputation)
RuleFilters(listing_types, ships_to, exclude_status, min_seller_reputation) ==
  [listing_types |-> listing_types, ships_to |-> ships_to,
   exclude_status |-> exclude_status,
   min_seller_reputation |-> min_seller_reputation]

\* WatchRule(name, expression, notify_via, enabled, categories, filters)
WatchRule(e, notify_via, enabled, categories, filters) ==
  [expression |-> e, notify_via |-> notify_via, enabled |-> enabled,
   categories |-> categories, filters |-> filters]

\* rules a configuration file holds: a disabled rule for amplifiers, a plain
\* rule, a rule for headphones that also wants sold listings
ConfigRuleChoices ==
  {WatchRule(CondCheap, <<"discord">>, FALSE, PyList(<<Amplifiers.v>>), None),
   WatchRule(CondCheap, <<"discord">>, TRUE, None, None),
   WatchRule(CondCheap, <<"email", "discord">>, TRUE, PyList(<<Headphones.v>>),
             RuleFilters(None, None, PyList(<<>>), None))}

GlobalFilterChoices ==
  {NoConfig.global_filters,
   [NoConfig.global_filters EXCEPT !.exclude_listing_types = PyList(<<WantToBuy.v>>)]}

\* what the notifiers' send may return in one call of process_listing
SendOutcomes ==
  {[channel \in {"email", "discord"} |-> TRUE],
   [channel \in {"email", "discord"} |-> channel = "discord"],
   [channel \in {"email", "discord"} |-> FALSE]}

Channels == {"email", "discord"}

Settings ==
  {[NoConfig EXCEPT !.watch_rules = rules, !.global_filters = g,
                    !.enabled_channels = enabled] :
     rules \in UNION {[1..n -> ConfigRuleChoices] : n \in 0..MaxConfigRules},
     g \in GlobalFilterChoices,
     enabled \in {{"discord"}, Channels}}

\* the rows of the watch_rules table, with the channels of each
ChannelRuleTables ==
  {<<>>,
   <<[expression |-> CondCheap, enabled |-> TRUE, notify_via |-> <<"email", "discord">>]>>}

\* what the scraper reads of a listing
ConfiguredScraped ==
  {[listing_type |-> ForSale, status |-> Active],
   [listing_type |-> WantToBuy, status |-> Active],
   [listing_type |-> ForSale, status |-> Sold]}

\* the Listing row upsert_from_scraped writes
ConfiguredListingOf(id, scraped) ==
  [id |-> PyStr(IdText(id)), title |-> PyStr(<<"H", "D", "8">>),
   price |-> PyDecimal(99999), status |-> scraped.status,
   listing_type |-> scraped.listing_type, category |-> Headphones,
   shipping_regions |-> None, seller_reputation |-> PyInt(5)]

RECURSIVE EnabledRows(_)
\* WatchRuleRepository.get_enabled() from row j on; origin 0: no config rule
EnabledRows(j) ==
  IF j > Len(watch_rules) THEN <<>>
  ELSE (IF watch_rules[j].enabled
        THEN <<[id |-> j, expression |-> watch_rules[j].expression,
                notify_via |-> watch_rules[j].notify_via, enabled |-> TRUE,
                origin |-> 0]>>
        ELSE <<>>) \o EnabledRows(j + 1)

RECURSIVE WrapEnabled(_, _, _)
\* for rule in settings.watch_rules: if rule.enabled:
\* config_rules.append(_ConfigRuleWrapper(rule)), from rule k on; a wrapper takes
\* the class counter as its id and decrements it; origin remembers the rule
\* the wrapper was made of
WrapEnabled(rules, k, counter) ==
  IF k > Len(rules) THEN <<>>
  ELSE IF rules[k].enabled
  THEN <<[id |-> counter, expression |-> rules[k].expression,
          notify_via |-> rules[k].notify_via, enabled |-> rules[k].enabled,
          origin |-> k]>> \o WrapEnabled(rules, k + 1, counter - 1)
  ELSE WrapEnabled(rules, k + 1, counter)

\* load_rules: config_rule_map[-(i + 1)] = cr for i, cr in enumerate(config_rules)
ConfigRuleMap(config_rules) ==
  [rule_id \in {-i : i \in 1..Len(config_rules)} |-> config_rules[-rule_id]]

\* self._rule_evaluators[rule.id] = (rule, evaluator, categories, rule_filters)
PutWith(evaluators, rule, evaluator, config_rule_map) ==
  LET mapped == rule.id \in DOMAIN config_rule_map
      entry == [rule |-> rule, evaluator |-> evaluator,
                categories |-> IF mapped THEN config_rule_map[rule.id].categories
                               ELSE None,
                rule_filters |-> IF mapped THEN config_rule_map[rule.id].filters
                                 ELSE None]
  IN [k \in DOMAIN evaluators \cup {rule.id} |->
        IF k = rule.id THEN entry ELSE evaluators[k]]

RECURSIVE LoadRulesWith(_, _, _, _)
\* load_rules(rules, config_rules): the loop from the j-th rule on
LoadRulesWith(rules, j, config_rule_map, evaluators) ==
  IF j > Len(rules) THEN evaluators
  ELSE LET rule == rules[j]
           parsed == FromString(rule.expression)
       IN LoadRulesWith(rules, j + 1, config_rule_map,
                        IF Registers(rule, parsed)
                        THEN PutWith(evaluators, rule, parsed.ast, config_rule_map)
                        ELSE evaluators)

\* rule.notify_via.split(","), each stripped and lowered, with a notifier
\* that is enabled
ChannelsOf(rule, enabled) ==
  {rule.notify_via[j] : j \in 1..Len(rule.notify_via)} \cap enabled

\* the (listing, rule) pairs with a successful row in notification_log
NotifiedPairs(log) == {<<n.listing_id, n.rule_id>> : n \in {m \in log : m.success}}

\* process_listing(listing): for each rule the filters, the de-duplication of
\* database rules, the match, then a send on every channel of the rule;
\* success[channel] is what that notifier's send returns
ProcessListingVia(evaluators, settings, l, log, success) ==
  LET passing == {rule_id \in DOMAIN evaluators :
                    /\ PassesRuleFiltersOf(settings.global_filters, l,
                                           evaluators[rule_id].categories,
                                           evaluators[rule_id].rule_filters)
                    /\ ~(rule_id > 0 /\ HasBeenNotified(log, l.id.v, rule_id))}
      matched == {rule_id \in passing : Matches(evaluators[rule_id].evaluator, l).value}
      sends == {s \in {l.id.v} \X matched \X Channels :
                  s[3] \in ChannelsOf(evaluators[s[2]].rule, settings.enabled_channels)}
  IN [evaluated |-> {<<l.id.v, rule_id>> : rule_id \in passing},
      sent |-> sends,
      log |-> {[listing_id |-> s[1], rule_id |-> s[2], channel |-> s[3],
                success |-> success[s[3]]] : s \in {x \in sends : x[2] > 0}}]

\* process_listings(listings)
ProcessListingsVia(evaluators, settings, ls, log, success) ==
  [evaluated |-> UNION {ProcessListingVia(evaluators, settings, l, log, success).evaluated : l \in ls},
   sent |-> UNION {ProcessListingVia(evaluators, settings, l, log, success).sent : l \in ls},
   log |-> UNION {ProcessListingVia(evaluators, settings, l, log, success).log : l \in ls}]

\* a scrape run of the process (_run_scrape_once, _run_scheduled_scrape): the
\* scraped listings are upserted; if any is new, the enabled database rules
\* and a wrapper for each enabled config rule are collected, and if there is
\* any rule a fresh orchestrator loads them and processes the new listings
ConfiguredRun ==
  /\ config.runs < MaxRuns
  /\ \E ids \in SUBSET (1..MaxSeen) :
     \E batch \in [ids -> ConfiguredScraped], success \in SendOutcomes :
       LET new_listings ==
             {ConfiguredListingOf(id, batch[id]) : id \in ids \ DOMAIN db_listings}
           db_rules == EnabledRows(1)
           config_rules == IF new_listings # {}
                           THEN WrapEnabled(config.watch_rules, 1, config.id_counter)
                           ELSE <<>>
           all_rules == db_rules \o config_rules
           loads == new_listings # {} /\ Len(all_rules) > 0
           evaluators == LoadRulesWith(all_rules, 1, ConfigRuleMap(config.watch_rules),
                                       <<>>)
           r == IF loads
                THEN ProcessListingsVia(evaluators, config, new_listings,
                                        notification_log, success)
                ELSE [evaluated |-> {}, sent |-> {}, log |-> {}]
       IN /\ ids # {}
          /\ db_listings' = [id \in DOMAIN db_listings \cup ids |->
                               IF id \in ids THEN ConfiguredListingOf(id, batch[id])
                               ELSE db_listings[id]]
          /\ config' = [config EXCEPT !.id_counter = @ - Len(config_rules),
                                      !.runs = @ + 1]
          /\ rule_evaluators' = IF loads THEN evaluators ELSE rule_evaluators
          /\ notification_log' = notification_log \cup r.log
          /\ trace' = [NoTrace EXCEPT !.op = IF loads THEN "run" ELSE "idle run",
                                      !.rules = all_rules,
                                      !.upserted = ids,
                                      !.evaluated = r.evaluated, !.sent = r.sent,
                                      !.before = NotifiedPairs(notification_log)]
  /\ UNCHANGED watch_rules
  /\ UNCHANGED <<text, pc, result, reparsed, expression, listing, outcome>>
  /\ UNCHANGED <<workers, callers, sched>>

\* process_listing(listing) called once more, on a stored listing, by an
\* orchestrator loaded as the one of the last run was
ProcessStoredListing ==
  /\ \E id \in DOMAIN db_listings, success \in SendOutcomes :
       LET r == ProcessListingVia(rule_evaluators, config, db_listings[id],
                                  notification_log, success)
       IN /\ notification_log' = notification_log \cup r.log
          /\ trace' = [NoTrace EXCEPT !.op = "process", !.evaluated = r.evaluated,
                                      !.sent = r.sent,
                                      !.before = NotifiedPairs(notification_log)]
  /\ UNCHANGED <<watch_rules, rule_evaluators, db_listings>>
  /\ UNCHANGED <<text, pc, result, reparsed, expression, listing, outcome>>
  /\ UNCHANGED extra

\* a process under some settings and some watch_rules table, before its
\* first scrape run
RunsInit ==
  /\ text = <<>>
  /\ pc = "configured"
  /\ result = NoResult
  /\ reparsed = NoResult
  /\ expression = NoAst
  /\ listing = NoListing
  /\ outcome = NoOutcome
  /\ watch_rules \in ChannelRuleTables
  /\ rule_evaluators = <<>>
  /\ db_listings = <<>>
  /\ notification_log = {}
  /\ trace = NoTrace
  /\ workers = NoWorkers
  /\ callers = NoCallers
  /\ config \in Settings
  /\ sched = NoScheduler

RunsNext == ConfiguredRun

RunsSpec == RunsInit /\ [][RunsNext]_vars

\* the orchestrator of the first scrape run of a process, loaded with the
\* enabled database rules and the wrappers of the enabled config rules, over
\* one stored listing
NotifierInit ==
  /\ text = <<>>
  /\ pc = "loaded"
  /\ result = NoResult
  /\ reparsed = NoResult
  /\ expression = NoAst
  /\ listing = NoListing
  /\ outcome = NoOutcome
  /\ watch_rules \in ChannelRuleTables
  /\ db_listings \in {[id \in {1} |-> ConfiguredListingOf(1, scraped)] :
                        scraped \in ConfiguredScraped}
  /\ notification_log = {}
  /\ trace = NoTrace
  /\ workers = NoWorkers
  /\ callers = NoCallers
  /\ \E settings \in Settings :
       LET config_rules == WrapEnabled(settings.watch_rules, 1, settings.id_counter)
       IN /\ config = [settings EXCEPT !.id_counter = @ - Len(config_rules),
                                        !.runs = 1]
          /\ rule_evaluators =
               LoadRulesWith(EnabledRows(1) \o config_rules, 1,
                             ConfigRuleMap(settings.watch_rules), <<>>)
  /\ sched = NoScheduler

NotifierNext == ProcessStoredListing

NotifierSpec == NotifierInit /\ [][NotifierNext]_vars

\* C24: a process_listing call sends nothing, on any channel, for a listing
\* and a database rule (positive id) for which a successful notification was
\* logged before the call.
C24_NoRepeatedNotification ==
  trace.op = "process" =>
    \A s \in trace.sent : s[2] > 0 => <<s[1], s[2]>> \notin trace.before

\* a listing notified for database rule 1 (one channel failed, the other
\* succeeded) is processed again, still matches and passes the filters, and
\* nothing is sent for the pair
C24_Witness ==
  /\ trace.op = "process"
  /\ 1 \in DOMAIN rule_evaluators
  /\ \E id \in DOMAIN db_listings :
       /\ <<IdText(id), 1>> \in trace.before
       /\ \E n \in notification_log :
            n.listing_id = IdText(id) /\ n.rule_id = 1 /\ ~n.success
       /\ PassesRuleFiltersOf(config.global_filters, db_listings[id], None, None)
       /\ Matches(rule_evaluators[1].evaluator, db_listings[id]).value
       /\ \A s \in trace.sent : ~(s[1] = IdText(id) /\ s[2] = 1)
       /\ \E s \in trace.sent : s[2] < 0

\* the stored listing with the id a notification names
StoredListing(listing_id) ==
  db_listings[CHOOSE id \in DOMAIN db_listings : IdText(id) = listing_id]

\* the global filter on field x is in force for a rule without filters of its
\* own, or whose filters leave x at None
NotOverridden(rule_filters, x) ==
  IF rule_filters = None THEN TRUE ELSE rule_filters[x] = None

\* C25: every notification a process_listing call sends is for a listing
\* that passes the global filters its rule does not override; the global
\* exclude_listing_types, which no rule can override, holds for every rule.
C25_GlobalFiltersApply ==
  trace.op = "process" =>
    \A s \in trace.sent :
      LET l == StoredListing(s[1])
          rule_filters == rule_evaluators[s[2]].rule_filters
          g == config.global_filters
      IN /\ (Truthy(g.exclude_listing_types) /\ Truthy(l.listing_type))
              => ~AmongLowered(g.exclude_listing_types, l.listing_type)
         /\ (NotOverridden(rule_filters, "listing_types")
               /\ Truthy(g.listing_types) /\ Truthy(l.listing_type))
              => AmongLowered(g.listing_types, l.listing_type)
         /\ (NotOverridden(rule_filters, "ships_to")
               /\ Truthy(g.ships_to) /\ Truthy(l.shipping_regions))
              => ShipsToAny(g.ships_to, l.shipping_regions)
         /\ (NotOverridden(rule_filters, "exclude_status")
               /\ Truthy(g.exclude_status) /\ Truthy(l.status))
              => ~AmongLowered(g.exclude_status, l.status)
         /\ (NotOverridden(rule_filters, "min_seller_reputation")
               /\ g.min_seller_reputation # None)
              => ~BelowReputation(g.min_seller_reputation, l)

\* C26: in every scrape run, each config-file rule is loaded with the
\* categories and the filters of the configured rule it was wrapped from,
\* which are what process_listing applies to it.
C26_OwnCategoriesAndFilters ==
  trace.op = "run" =>
    \A rule_id \in DOMAIN rule_evaluators :
      rule_id < 0 =>
        LET own == config.watch_rules[rule_evaluators[rule_id].rule.origin]
        IN /\ rule_evaluators[rule_id].categories = own.categories
           /\ rule_evaluators[rule_id].rule_filters = own.filters

(***************************************************************************)
(* ScrapeScheduler: start, stop and run_blocking on the main thread, the   *)
(* jobs of the BackgroundScheduler, and the pool that executes them.  The  *)
(* scheduler submits a due job to the pool unless the job already has      *)
(* max_instances submitted runs (missed run times of a job are coalesced   *)
(* into one submission); a pool thread takes the submissions in order;     *)
(* shutdown(wait=True) stops the scheduler, closes the pool to new         *)
(* submissions and waits until the pool has worked off what it holds.      *)
(***************************************************************************)
\* calls of start, stop and run_blocking
MaxCalls == 4

\* ThreadPoolExecutor(max_workers=1)
MAX_WORKERS == 1
\* job_defaults["max_instances"]
MAX_INSTANCES == 1

JobIds == {"scrape_headfi", "scrape_headfi_immediate"}

\* what start and stop act on
Core(s) ==
  <<s.is_running, s.state, s.starts, s.adds, s.jobs, s.pool_open, s.queue,
    s.executing, s.instances>>

NeverRunning(s) == FALSE

\* start: if self._is_running: ... return
AlreadyRunning(s) == s.is_running

\* start(run_immediately) past the guard: add_scrape_job, scheduler.start(),
\* _is_running = True, and the immediate job if asked for
Started(s, run_immediately) ==
  [s EXCEPT !.jobs = @ \cup {"scrape_headfi"} \cup
                     (IF run_immediately THEN {"scrape_headfi_immediate"} ELSE {}),
            !.adds = @ + 1 + (IF run_immediately THEN 1 ELSE 0),
            !.starts = @ + 1,
            !.state = "running",
            !.is_running = TRUE]

\* the scheduler after a call of start(run_immediately)
AfterStart(s, run_immediately) ==
  LET after == IF AlreadyRunning(s) THEN s ELSE Started(s, run_immediately)
  IN [after EXCEPT !.call =
        [n |-> s.call.n + 1, op |-> "start", was_running |-> s.is_running,
         changed |-> Core(after) # Core(s),
         effective |-> IF AlreadyRunning(s) THEN s.call.effective ELSE "start"]]

\* stop past the guard: scheduler.shutdown(wait=True) stops the scheduler and
\* closes the pool, then waits
ShutdownBegun(s) == [s EXCEPT !.state = "stopped", !.pool_open = FALSE]

\* the pool has worked off everything it held: shutdown returns
Drained(s) == Len(s.queue) = 0 /\ Len(s.executing) = 0

SchedulerUnchanged ==
  /\ UNCHANGED <<text, pc, result, reparsed, expression, listing, outcome>>
  /\ UNCHANGED service
  /\ UNCHANGED <<workers, callers, config>>

\* scheduler.start(run_immediately)
Start ==
  /\ sched.main = "idle"
  /\ sched.call.n < MaxCalls
  /\ \E run_immediately \in BOOLEAN : sched' = AfterStart(sched, run_immediately)
  /\ SchedulerUnchanged

\* scheduler.stop(), up to the wait inside shutdown
StopBegin ==
  /\ sched.main = "idle"
  /\ sched.call.n < MaxCalls
  /\ sched' =
       IF ~sched.is_running
       THEN [sched EXCEPT !.call = [n |-> sched.call.n + 1, op |-> "stop",
                                    was_running |-> FALSE, changed |-> FALSE,
                                    effective |-> sched.call.effective]]
       ELSE [ShutdownBegun(sched) EXCEPT
               !.main = "stopping",
               !.call = [n |-> sched.call.n + 1, op |-> "stop",
                         was_running |-> TRUE, changed |-> TRUE,
                         effective |-> sched.call.effective]]
  /\ SchedulerUnchanged

\* scheduler.stop(), from the return of shutdown: _is_running = False
StopEnd ==
  /\ sched.main = "stopping"
  /\ Drained(sched)
  /\ sched' = [sched EXCEPT !.is_running = FALSE, !.main = "idle",
                            !.call.effective = "stop"]
  /\ SchedulerUnchanged

\* run_blocking(run_immediately): start, then the loop while self._is_running
RunBlocking ==
  /\ sched.main = "idle"
  /\ sched.call.n < MaxCalls
  /\ \E run_immediately \in BOOLEAN :
       sched' = [AfterStart(sched, run_immediately) EXCEPT !.main = "loop"]
  /\ SchedulerUnchanged

\* SIGINT or SIGTERM during the loop: signal_handler runs on the main thread
\* and calls stop(), which waits inside shutdown
Signal ==
  /\ sched.main = "loop"
  /\ ~sched.signalled
  /\ sched' = IF ~sched.is_running
              THEN [sched EXCEPT !.signalled = TRUE]
              ELSE [ShutdownBegun(sched) EXCEPT !.signalled = TRUE,
                                                 !.main = "handler"]
  /\ SchedulerUnchanged

\* shutdown returns inside the handler: _is_running = False, the handler
\* returns to the loop
HandlerReturns ==
  /\ sched.main = "handler"
  /\ Drained(sched)
  /\ sched' = [sched EXCEPT !.is_running = FALSE, !.main = "loop",
                            !.call.effective = "stop"]
  /\ SchedulerUnchanged

\* the loop sees _is_running False; finally: stop(), which returns at its
\* guard; run_blocking returns
LeaveLoop ==
  /\ sched.main = "loop"
  /\ ~sched.is_running
  /\ sched' = [sched EXCEPT !.main = "idle"]
  /\ SchedulerUnchanged

\* a run time of a job is due (for missed run times: once, coalesced): the
\* scheduler submits the job unless max_instances runs of it are submitted
\* already or the pool is closed; a job without a next run time (the immediate
\* one) leaves the job store
Fire(job) ==
  /\ sched.state = "running"
  /\ job \in sched.jobs
  /\ LET submits == sched.pool_open /\ sched.instances[job] < MAX_INSTANCES
     IN sched' = [sched EXCEPT
          !.queue = IF submits THEN Append(@, job) ELSE @,
          !.instances[job] = IF submits THEN @ + 1 ELSE @,
          !.jobs = IF job = "scrape_headfi_immediate" THEN @ \ {job} ELSE @]
  /\ SchedulerUnchanged

WorkerAlwaysFree(executing) == TRUE

\* a thread of the pool is free to take the next submission
WorkerFree(executing) == Len(executing) < MAX_WORKERS

\* a pool thread takes the next submission: the scrape function starts
BeginScrape ==
  /\ Len(sched.queue) > 0
  /\ WorkerFree(sched.executing)
  /\ sched' = [sched EXCEPT
       !.executing = Append(@, Head(sched.queue)),
       !.queue = Tail(@),
       !.started_after_signal =
          IF sched.signalled THEN @ \cup {Head(sched.queue)} ELSE @]
  /\ SchedulerUnchanged

\* a scrape function returns or raises
EndScrape ==
  /\ \E j \in 1..Len(sched.executing) :
       sched' = [sched EXCEPT
         !.executing = SubSeq(@, 1, j - 1) \o SubSeq(@, j + 1, Len(@)),
         !.instances[sched.executing[j]] = @ - 1]
  /\ SchedulerUnchanged

SchedulerInit ==
  /\ text = <<>>
  /\ pc = "scheduler"
  /\ result = NoResult
  /\ reparsed = NoResult
  /\ expression = NoAst
  /\ listing = NoListing
  /\ outcome = NoOutcome
  /\ ServiceInit

SchedulerNext ==
  \/ Start
  \/ StopBegin
  \/ StopEnd
  \/ RunBlocking
  \/ Signal
  \/ HandlerReturns
  \/ LeaveLoop
  \/ \E job \in JobIds : Fire(job)
  \/ BeginScrape
  \/ EndScrape

SchedulerSpec == SchedulerInit /\ [][SchedulerNext]_vars

\* C27: a start() call on a running scheduler and a stop() call on one that
\* is not running leave the scheduler, its jobs and its pool as they were;
\* between calls, _is_running is true exactly when the last call that took
\* effect was a start
C27_StartStopIdempotent ==
  /\ (sched.call.op = "start" /\ sched.call.was_running) => ~sched.call.changed
  /\ (sched.call.op = "stop" /\ ~sched.call.was_running) => ~sched.call.changed
  /\ sched.main = "idle" => (sched.is_running <=> sched.call.effective = "start")

\* start, start again, stop, stop again
C27_Witness ==
  /\ sched.call.n = 4
  /\ sched.call.op = "stop"
  /\ ~sched.call.was_running
  /\ sched.starts = 1
  /\ sched.call.effective = "stop"
  /\ sched.main = "idle"

\* C28: at most one execution of the scrape function is in progress at any
\* moment, whichever of the interval job and the immediate job are due
C28_OneScrapeAtATime == Len(sched.executing) <= 1

\* the immediate scrape is in progress while the interval job, due
\* meanwhile, waits in the pool
C28_Witness ==
  /\ sched.executing = <<"scrape_headfi_immediate">>
  /\ sched.queue = <<"scrape_headfi">>

\* C29: after a shutdown signal during run_blocking no new scrape starts; once
\* run_blocking has returned, _is_running is false and no scrape is in
\* progress
C29_GracefulShutdown ==
  /\ sched.started_after_signal = {}
  /\ (sched.signalled /\ sched.main = "idle") =>
       (~sched.is_running /\ Drained(sched))

(***************************************************************************)
(* The status of stored listings.  _parse_listing reads a status off the   *)
(* listing element: off its CSS classes, the label and the text of its     *)
(* price, and its title; upsert_from_scraped stores it;                    *)
(* mark_stale_as_expired expires active listings not seen for a while.     *)
(***************************************************************************)
Closed == PyStr(<<"c", "l", "o", "s", "e", "d">>)

\* listing elements by the indicator words their texts hold: classes and
\* label are the sets of words found in them (label: <<>> if the element has
\* no price label), price_sold whether the price text holds "sold", title
\* which marker the title carries
Elements ==
  [classes : {{}, {"sold"}, {"closed"}, {"expired"}, {"inactive"}, {"sold", "closed"}},
   label : {<<>>, <<{}>>, <<{"sold"}>>, <<{"closed"}>>},
   price_sold : BOOLEAN,
   title : {"plain", "sold", "closed"}]

\* _parse_listing: status from the element classes
ClassStatus(classes) ==
  IF classes = {} THEN Active
  ELSE IF "sold" \in classes THEN Sold
  ELSE IF "closed" \in classes THEN Closed
  ELSE IF "expired" \in classes THEN Expired
  ELSE Active

\* ... then from the label of the price element
LabelStatus(label, status) ==
  IF Len(label) = 0 THEN status
  ELSE IF "sold" \in label[1] THEN Sold
  ELSE IF "closed" \in label[1] THEN Closed
  ELSE status

\* ... then from the price text, then from the title
DetectStatus(element) ==
  LET by_label == LabelStatus(element.label, ClassStatus(element.classes))
      by_price == IF element.price_sold THEN Sold ELSE by_label
  IN IF element.title = "sold" THEN Sold
     ELSE IF element.title = "closed" THEN Closed
     ELSE by_price

\* scraped.status if scraped.status else ListingStatus.ACTIVE.value
StoredStatus(status) == IF Len(status.v) > 0 THEN status ELSE Active

\* upsert_from_scraped(scraped) for the listing an element was parsed into
UpsertFromScraped ==
  /\ \E id \in 1..MaxSeen, element \in Elements :
       /\ db_listings' =
            [k \in DOMAIN db_listings \cup {id} |->
               IF k = id
               THEN ListingOf(id, [price |-> PyDecimal(99999),
                                   status |-> StoredStatus(DetectStatus(element))])
               ELSE db_listings[k]]
       /\ trace' = [NoTrace EXCEPT !.op = "upsert", !.upserted = {id},
                                   !.element = <<element>>]
  /\ UNCHANGED <<watch_rules, rule_evaluators, notification_log>>
  /\ UNCHANGED <<text, pc, result, reparsed, expression, listing, outcome>>
  /\ UNCHANGED extra

\* mark_stale_as_expired(hours): the active listings last seen before the
\* cutoff become expired
MarkStaleAsExpired ==
  /\ \E stale \in SUBSET DOMAIN db_listings :
       /\ db_listings' =
            [k \in DOMAIN db_listings |->
               IF k \in stale /\ db_listings[k].status = Active
               THEN [db_listings[k] EXCEPT !.status = Expired]
               ELSE db_listings[k]]
       /\ trace' = [NoTrace EXCEPT !.op = "expire", !.upserted = stale]
  /\ UNCHANGED <<watch_rules, rule_evaluators, notification_log>>
  /\ UNCHANGED <<text, pc, result, reparsed, expression, listing, outcome>>
  /\ UNCHANGED extra

StatusInit ==
  /\ text = <<>>
  /\ pc = "scraping"
  /\ result = NoResult
  /\ reparsed = NoResult
  /\ expression = NoAst
  /\ listing = NoListing
  /\ outcome = NoOutcome
  /\ ServiceInit

StatusNext ==
  \/ UpsertFromScraped
  \/ MarkStaleAsExpired

StatusSpec == StatusInit /\ [][StatusNext]_vars

\* C30: every stored listing's status is one of the ListingStatus values
\* active, sold, expired, deleted
C30_StatusIsListingStatus ==
  \A id \in DOMAIN db_listings :
    db_listings[id].status \in {Active, Sold, Expired, Deleted}

====
